---------------------------- MODULE Spec2Model ----------------------------
(***************************************************************************)
(* A model of the claude-hooks of claude-session-continuity-mcp:           *)
(*   session_end.py        commit capture and the commit ledger            *)
(*   post_prompt_submit.py conversation capture, classification and dedup  *)
(*   session_start.py      multi-phase retrieval at session start          *)
(*   pre_prompt_submit.py  turn-time retrieval                             *)
(* The relational store (sessions.db) and the ledger file                  *)
(* (saved_commits.json) are the shared state; each hook firing is a        *)
(* short-lived process.                                                    *)
(***************************************************************************)
EXTENDS Integers, Sequences, FiniteSets, TLC

VARIABLES
    dbExists,       \* os.path.exists(DB_PATH)
    memories,       \* table memories: a sequence of rows, id = index
    sessions,       \* table sessions: a sequence of rows (append-only log)
    activeContext,  \* table active_context: project -> row or NoRow
    projectContext, \* table project_context: project -> row or NoRow
    embeddings,     \* table embeddings: memory id -> the stored blob
    ledger,         \* saved_commits.json: project -> sequence of commit hashes
    gitLog,         \* the repository history of the project, most recent first
    nextCommit,     \* the hash the next commit of the repository gets
    now,            \* the wall clock, in hours
    invocations,    \* invocations of the capturing hooks so far
    turn,           \* post_prompt_submit: process -> where its main stands
    run,            \* what the last hook invocation saw and did
    settings        \* ~/.claude/settings.local.json, as install_hooks.py sees it

storeVars == <<dbExists, memories, sessions, activeContext, projectContext,
               embeddings>>
vars == <<dbExists, memories, sessions, activeContext, projectContext,
          embeddings, ledger, gitLog, nextCommit, now, invocations, turn, run,
          settings>>

\* The processes that run post_prompt_submit.py at the same time
Procs == 1..2
NoTurn == [pc |-> "idle", n |-> 0]

\* No row of the table for the key; the NULL of a column
NoRow == [row |-> "none"]
NULL == <<"NULL">>

\* settings.local.json does not exist: file is "absent", "corrupt" (not
\* JSON) or "object"; hooks and key say whether the object has 'hooks' and
\* hooks has 'user-prompt-submit'; prompt is that list, stop the list of
\* another hook event, theme a setting that is not a hook
NoSettings == [file |-> "absent", hooks |-> FALSE, key |-> FALSE,
               prompt |-> <<>>, stop |-> <<>>, theme |-> "none"]

\* The project whose hooks fire, and another project sharing store and ledger.
Project == "app"
OtherProject == "tools/cli"
Projects == {Project, OtherProject}

-----------------------------------------------------------------------------
(***************************************************************************)
(* Small helpers on sequences.                                             *)
(***************************************************************************)
Range(s) == {s[i] : i \in 1..Len(s)}

Min(a, b) == IF a <= b THEN a ELSE b
Max(a, b) == IF a >= b THEN a ELSE b

\* Python s[:n]
Take(s, n) == SubSeq(s, 1, Min(n, Len(s)))

\* Python s[-n:] (n > 0)
LastN(s, n) == IF Len(s) <= n THEN s ELSE SubSeq(s, Len(s) - n + 1, Len(s))

\* The sequence lo, lo+1, ..., hi and the sequence hi, hi-1, ..., lo
Upto(lo, hi) == [i \in 1..(hi - lo + 1) |-> lo + i - 1]
Downto(hi, lo) == [i \in 1..(hi - lo + 1) |-> hi - i + 1]

-----------------------------------------------------------------------------
(***************************************************************************)
(* session_end.py: commit capture.                                         *)
(*                                                                         *)
(* A commit is [hash, message]; hashes are numbers (the order they were    *)
(* created in), messages are drawn from CommitMessages.                    *)
(***************************************************************************)
LEDGER_CAP == 100       \* saved[project][-100:]
LOG_WINDOW == 10        \* git log -10
NEW_COMMITS_CAP == 3    \* new_commits[:3]
MIN_COMMIT_MSG == 10    \* len(msg) < 10

\* Bounds of the commit-capture model
MaxNewCommits == 2      \* commits made while the model runs
MaxRuns == 3            \* invocations of session_end
ShortHashMod == 7       \* distinct 8-character prefixes of hashes

CommitMessages == {"wip", "fix nav", "fix crash in login flow"}

\* Messages of the other types: no pattern, a 'pattern', a 'decide' among
\* three error patterns, two learning patterns
TypedMessages == {"update deps", "always use riverpod", "decide: fix crash bug",
                  "learn how to deploy"}

MsgLen(msg) ==
    CASE msg = "wip" -> 3
      [] msg = "fix nav" -> 7
      [] msg = "fix crash in login flow" -> 23
      [] msg = "update deps" -> 11
      [] msg = "always use riverpod" -> 19
      [] msg = "decide: fix crash bug" -> 21
      [] msg = "learn how to deploy" -> 19

\* commit_hash[:8]: distinct hashes may share their first 8 characters
ShortHash(h) == h % ShortHashMod

\* SKIP_COMMIT_PATTERNS: any(pattern in msg_lower ...); of the messages above
\* only "wip" contains one of the patterns.
should_skip_commit(msg) == msg \in {"wip"}

\* MEMORY_TYPE_PATTERNS, in dict order
CommitTypes == <<"decision", "error", "pattern", "learning">>

\* The number of patterns of each type that re.search finds in the message:
\* "fix nav" has 'fix'; "fix crash in login flow" has 'fix' and 'crash';
\* "always use riverpod" has 'always'; "decide: fix crash bug" has 'decide'
\* and 'fix', 'crash', 'bug'; "learn how to deploy" has 'learn' and 'how to'.
PatternHits(msg) ==
    CASE msg \in {"wip", "update deps"} ->
            [decision |-> 0, error |-> 0, pattern |-> 0, learning |-> 0]
      [] msg = "always use riverpod" ->
            [decision |-> 0, error |-> 0, pattern |-> 1, learning |-> 0]
      [] msg = "decide: fix crash bug" ->
            [decision |-> 1, error |-> 3, pattern |-> 0, learning |-> 0]
      [] msg = "learn how to deploy" ->
            [decision |-> 0, error |-> 0, pattern |-> 0, learning |-> 2]
      [] msg = "fix nav" ->
            [decision |-> 0, error |-> 1, pattern |-> 0, learning |-> 0]
      [] msg = "fix crash in login flow" ->
            [decision |-> 0, error |-> 2, pattern |-> 0, learning |-> 0]

\* classify_memory_type without "if scores[max_type] > 0 else 'observation'"
classify_memory_type_no_default(msg) ==
    LET scores == PatternHits(msg)
        best == CHOOSE i \in 1..Len(CommitTypes) :
                  /\ \A j \in 1..Len(CommitTypes) :
                        scores[CommitTypes[j]] <= scores[CommitTypes[i]]
                  /\ \A j \in 1..(i - 1) :
                        scores[CommitTypes[j]] < scores[CommitTypes[i]]
    IN CommitTypes[best]

\* max(scores, key=scores.get): the first type, in dict order, with the
\* greatest score; 'observation' when no pattern matches.
classify_memory_type(msg) ==
    LET scores == PatternHits(msg)
        best == CHOOSE i \in 1..Len(CommitTypes) :
                  /\ \A j \in 1..Len(CommitTypes) :
                        scores[CommitTypes[j]] <= scores[CommitTypes[i]]
                  /\ \A j \in 1..(i - 1) :
                        scores[CommitTypes[j]] < scores[CommitTypes[i]]
    IN IF scores[CommitTypes[best]] > 0 THEN CommitTypes[best] ELSE "observation"

\* git log -10: the ten most recent commits, most recent first
RecentLog(log) == Take(log, LOG_WINDOW)

\* The commits of the window that are not in the ledger, in log order
UnseenCommits(log, saved_hashes) ==
    SelectSeq(RecentLog(log), LAMBDA c : c.hash \notin saved_hashes)

\* get_new_commits without "if commit_hash in saved_hashes: continue"
get_new_commits_unfiltered(log, saved_commits) ==
    Take(RecentLog(log), NEW_COMMITS_CAP)

\* get_new_commits with new_commits[-3:] for new_commits[:3]
get_new_commits_oldest(log, saved_commits) ==
    LastN(UnseenCommits(log, Range(saved_commits[Project])), NEW_COMMITS_CAP)

\* saved_hashes = set(saved_commits.get(project, [])); new_commits[:3]
get_new_commits(log, saved_commits) ==
    Take(UnseenCommits(log, Range(saved_commits[Project])), NEW_COMMITS_CAP)

\* save_commit_hash that keeps the first 100 instead of the last 100
save_commit_hash_keep_first(saved, project, commit_hash) ==
    IF commit_hash \in Range(saved[project])
    THEN saved
    ELSE [saved EXCEPT ![project] =
            Take(Append(saved[project], commit_hash), LEDGER_CAP)]

\* save_commit_hash: append when absent, keep the last 100; the whole file is
\* read and written back.
save_commit_hash(saved, project, commit_hash) ==
    IF commit_hash \in Range(saved[project])
    THEN saved
    ELSE [saved EXCEPT ![project] =
            LastN(Append(saved[project], commit_hash), LEDGER_CAP)]

\* The row INSERT OR REPLACE INTO active_context (project, current_state,
\* recent_files, updated_at) leaves: the columns it does not name are NULL.
ActiveRow(state, files, t) ==
    [current_state |-> state, recent_files |-> files, blockers |-> NULL,
     last_verification |-> NULL, updated_at |-> t]

\* The store as an invocation finds it, as one value; upserts counts the
\* INSERT OR REPLACE INTO active_context statements the invocation executes.
Store == [db |-> dbExists, memories |-> memories, sessions |-> sessions,
          active |-> activeContext, upserts |-> 0]

\* session_end.update_active_context
update_active_context_end(st, project, uncommitted_files, t) ==
    IF ~st.db \/ uncommitted_files = <<>> THEN st
    ELSE [st EXCEPT
            !.active[project] =
                ActiveRow(<<"Working on", Take(uncommitted_files, 5)>>,
                          uncommitted_files, t),
            !.upserts = @ + 1]

\* save_commit_session with the row of the project replaced, not added
save_commit_session_replace(st, project, commit, files, t) ==
    IF ~st.db THEN st
    ELSE [st EXCEPT
            !.sessions = Append(SelectSeq(@, LAMBDA r : r.project # project),
                [project |-> project, last_work |-> commit.message,
                 current_status |-> <<"Commit", ShortHash(commit.hash)>>,
                 commit |-> commit.hash, timestamp |-> t]),
            !.active[project] = ActiveRow(commit.message, files, t),
            !.upserts = @ + 1]

save_commit_session(st, project, commit, files, t) ==
    IF ~st.db THEN st
    ELSE [st EXCEPT
            !.sessions = Append(@,
                [project |-> project, last_work |-> commit.message,
                 current_status |-> <<"Commit", ShortHash(commit.hash)>>,
                 commit |-> commit.hash, timestamp |-> t]),
            !.active[project] = ActiveRow(commit.message, files, t),
            !.upserts = @ + 1]

\* A memory row.  tag is the bracketed token its content starts with; commit is
\* the commit it was captured from (0 on the conversation path).
MemoryRow(project, tag, text, mtype, importance, t, commit) ==
    [project |-> project, tag |-> tag, text |-> text, memory_type |-> mtype,
     importance |-> importance, created_at |-> t, commit |-> commit]

CommitTag(commit) == <<"commit", ShortHash(commit.hash)>>

\* save_commit_memory without "if len(msg) < 10: return None"
save_commit_memory_any_length(st, project, commit, t) ==
    LET msg == commit.message
        memory_type == classify_memory_type(msg)
        importance == IF memory_type \in {"decision", "error"} THEN 7 ELSE 5
        dup == \E i \in 1..Len(st.memories) :
                  /\ st.memories[i].project = project
                  /\ st.memories[i].tag = CommitTag(commit)
    IN IF ~st.db \/ dup THEN st
       ELSE [st EXCEPT !.memories = Append(@,
                MemoryRow(project, CommitTag(commit), msg, memory_type,
                          importance, t, commit.hash))]

save_commit_memory(st, project, commit, t) ==
    LET msg == commit.message
        memory_type == classify_memory_type(msg)
        importance == IF memory_type \in {"decision", "error"} THEN 7 ELSE 5
        \* content LIKE '%[short_hash]%'
        dup == \E i \in 1..Len(st.memories) :
                  /\ st.memories[i].project = project
                  /\ st.memories[i].tag = CommitTag(commit)
    IN IF ~st.db \/ MsgLen(msg) < MIN_COMMIT_MSG \/ dup THEN st
       ELSE [st EXCEPT !.memories = Append(@,
                MemoryRow(project, CommitTag(commit), msg, memory_type,
                          importance, t, commit.hash))]

\* git diff-tree --name-only -r <hash>: the files a commit changed are fixed
\* by the commit.
CommitFiles(commit) == <<commit.hash>>

\* The loop body of main without the save_commit_hash that follows a capture
CaptureCommit_unmarked(w, project, commit, t) ==
    IF should_skip_commit(commit.message)
    THEN [w EXCEPT !.saved = save_commit_hash(@, project, commit.hash)]
    ELSE [st |-> save_commit_memory(
                    save_commit_session(w.st, project, commit,
                                        CommitFiles(commit), t),
                    project, commit, t),
          saved |-> w.saved]

\* The loop body of main without the save_commit_hash of a skipped commit
CaptureCommit_skip_unmarked(w, project, commit, t) ==
    IF should_skip_commit(commit.message)
    THEN w
    ELSE [st |-> save_commit_memory(
                    save_commit_session(w.st, project, commit,
                                        CommitFiles(commit), t),
                    project, commit, t),
          saved |-> save_commit_hash(w.saved, project, commit.hash)]

\* One turn of the loop of main over new_commits; w = [st, saved] is the
\* store and the ledger file.
CaptureCommit(w, project, commit, t) ==
    IF should_skip_commit(commit.message)
    THEN [w EXCEPT !.saved = save_commit_hash(@, project, commit.hash)]
    ELSE [st |-> save_commit_memory(
                    save_commit_session(w.st, project, commit,
                                        CommitFiles(commit), t),
                    project, commit, t),
          saved |-> save_commit_hash(w.saved, project, commit.hash)]

RECURSIVE CaptureAll(_, _, _, _)
CaptureAll(w, project, commits, t) ==
    IF commits = <<>> THEN w
    ELSE CaptureAll(CaptureCommit(w, project, Head(commits), t),
                    project, Tail(commits), t)

\* The rows of a table that an invocation appended
Appended(before, after) == SubSeq(after, Len(before) + 1, Len(after))

Hashes(commits) == [i \in 1..Len(commits) |-> commits[i].hash]

\* What an invocation of session_end saw and did: the window of the log, the
\* ledger, whether the store existed, the commits get_new_commits returned,
\* the rows written; prev is the same of the invocation before it.
EndRun(w, unseen) ==
    [hook |-> "session_end",
     log |-> Hashes(RecentLog(gitLog)),
     seen |-> Range(ledger[Project]),
     ledgerLen |-> Len(ledger[Project]),
     unseen |-> Len(unseen),
     db |-> dbExists,
     new_commits |-> Hashes(get_new_commits(gitLog, ledger)),
     sessionsFor |-> {r.commit : r \in Range(Appended(sessions, w.st.sessions))},
     memoriesFor |-> {r.commit : r \in Range(Appended(memories, w.st.memories))},
     upserts |-> w.st.upserts,
     prev |-> IF run.hook = "session_end"
              THEN [valid |-> TRUE, log |-> run.log, unseen |-> run.unseen,
                    ledgerLen |-> run.ledgerLen, db |-> run.db,
                    new_commits |-> run.new_commits,
                    sessionsFor |-> run.sessionsFor]
              ELSE [valid |-> FALSE]]

\* session_end.main, one whole invocation in the project's directory
SessionEndMain(uncommitted_files) ==
    LET st0 == update_active_context_end(Store, Project, uncommitted_files, now)
        saved_commits == ledger
        new_commits == get_new_commits(gitLog, saved_commits)
        w == CaptureAll([st |-> st0, saved |-> ledger], Project, new_commits, now)
    IN /\ memories' = w.st.memories
       /\ sessions' = w.st.sessions
       /\ activeContext' = w.st.active
       /\ ledger' = w.saved
       /\ run' = EndRun(w, UnseenCommits(gitLog, Range(ledger[Project])))
       /\ invocations' = invocations + 1
       /\ UNCHANGED <<dbExists, projectContext, embeddings, gitLog, nextCommit,
                       now, turn, settings>>

\* The developer commits
GitCommit(msg) ==
    /\ gitLog' = <<[hash |-> nextCommit, message |-> msg]>> \o gitLog
    /\ nextCommit' = nextCommit + 1
    /\ UNCHANGED <<storeVars, ledger, now, invocations, turn, run, settings>>

\* git reset --hard HEAD~k (or the checkout of an older branch)
GitReset(k) ==
    /\ k \in 1..(Len(gitLog) - 1)
    /\ gitLog' = SubSeq(gitLog, k + 1, Len(gitLog))
    /\ UNCHANGED <<storeVars, ledger, nextCommit, now, invocations, turn, run, settings>>

\* The repository and the ledger before the model starts: a new repository;
\* or a repository of History commits, either none of them marked (the hook
\* was not installed) or all of them, marked one invocation after the other
\* while the store did not exist (save_commit_session then writes no row).
History == LEDGER_CAP - 1

InitCommit ==
    /\ settings = NoSettings
    /\ dbExists \in BOOLEAN
    /\ memories = <<>>
    /\ sessions = <<>>
    /\ activeContext = [p \in Projects |-> NoRow]
    /\ projectContext = [p \in Projects |-> NoRow]
    /\ embeddings = <<>>
    /\ turn = [i \in Procs |-> NoTurn]
    /\ \E h \in {0, History}, marked \in BOOLEAN :
          /\ gitLog = [i \in 1..h |->
                         [hash |-> h - i + 1, message |-> "fix crash in login flow"]]
          /\ ledger = [p \in Projects |->
                         IF p = Project /\ marked THEN Upto(1, h) ELSE <<>>]
          /\ nextCommit = h + 1
    /\ now = 0
    /\ invocations = 0
    /\ run = [hook |-> "none"]

\* The commits made since the model started (MaxNewCommits < History)
CommitsMade ==
    IF nextCommit > History THEN nextCommit - 1 - History ELSE nextCommit - 1

NextCommit ==
    \/ \E msg \in CommitMessages :
          /\ CommitsMade < MaxNewCommits
          /\ GitCommit(msg)
    \/ /\ Len(gitLog) > LOG_WINDOW
       /\ GitReset(Len(gitLog) - 2)
    \/ \E files \in {<<>>, <<"a.py">>} :
          /\ invocations < MaxRuns
          /\ SessionEndMain(files)

SpecCommit == InitCommit /\ [][NextCommit]_vars

-----------------------------------------------------------------------------
(***************************************************************************)
(* Properties of commit capture (SpecCommit).                              *)
(***************************************************************************)
WroteFor == run.sessionsFor \cup run.memoriesFor

\* C1: in every invocation of session_end, no Session row and no Memory row
\* is written for a commit that was in the project's ledger when the
\* invocation started.
C1_SeenCommitNotWritten ==
    run.hook = "session_end" => WroteFor \cap run.seen = {}

\* An invocation that found commits of the log window in the ledger and
\* wrote a Session row and a Memory row for other commits.
C1_Witness ==
    /\ run.hook = "session_end"
    /\ run.seen \cap Range(run.log) # {}
    /\ run.sessionsFor # {}
    /\ run.memoriesFor # {}

\* The second of two invocations in succession that saw the same git log
SecondRun ==
    /\ run.hook = "session_end"
    /\ run.prev.valid
    /\ run.prev.log = run.log

\* C2 as stated: whatever the ledger and the git log, the second of two
\* invocations in succession with the git log unchanged writes no Session
\* row and no Memory row.
C2_SecondRunWritesNothing ==
    SecondRun => WroteFor = {}

\* C2, amended: the second invocation writes no Session row and no Memory row
\* when the first one found at most 3 unseen commits among the last 10 and
\* the ledger had room for them below its cap of 100.
C2_SecondRunWritesNothingIfAllMarked ==
    ( /\ SecondRun
      /\ run.prev.unseen <= NEW_COMMITS_CAP
      /\ run.prev.ledgerLen + run.prev.unseen <= LEDGER_CAP )
    => WroteFor = {}

\* A second invocation after one that captured unseen commits
C2_Witness ==
    /\ SecondRun
    /\ run.prev.unseen \in 1..NEW_COMMITS_CAP
    /\ run.prev.ledgerLen + run.prev.unseen <= LEDGER_CAP
    /\ run.prev.sessionsFor # {}
    /\ WroteFor = {}

\* The ledger evicted a commit of the log window, which is captured again
C2_EvictionWitness ==
    /\ SecondRun
    /\ run.prev.unseen <= NEW_COMMITS_CAP
    /\ WroteFor # {}

\* The number of rows of a table that the capture of commit c wrote
RowsFor(table, c) == Cardinality({i \in 1..Len(table) : table[i].commit = c.hash})

\* The case of C15: the commit c passes the triviality filter and was in the
\* window of the log at the last two invocations of session_end
C15_Case(c) ==
    /\ run.hook = "session_end"
    /\ run.prev.valid
    /\ ~should_skip_commit(c.message)
    /\ c.hash \in Range(run.prev.log)
    /\ c.hash \in Range(run.log)

\* C15: a commit that passes the triviality filter and was seen by two
\* successive invocations has exactly one Session row and exactly one Memory
\* row, whatever its message.
C15_OneSessionOneMemory ==
    \A c \in Range(gitLog) :
        C15_Case(c) => RowsFor(sessions, c) = 1 /\ RowsFor(memories, c) = 1

\* A memory of another commit carries the short hash of c
SharesShortHash(c) ==
    \E i \in 1..Len(memories) :
        /\ memories[i].project = Project
        /\ memories[i].commit # c.hash
        /\ memories[i].tag = CommitTag(c)

\* C15 as the code has it: a commit that passes the triviality filter, that
\* the first of two successive invocations got from get_new_commits with the
\* store present, has exactly one Session row; it has exactly one Memory row
\* when its message has 10 characters or more and no memory of another
\* commit carries its short hash, and no Memory row otherwise.
C15_OneSessionOneLongMemory ==
    \A c \in Range(gitLog) :
        (C15_Case(c) /\ run.prev.db /\ c.hash \in Range(run.prev.new_commits))
            => /\ RowsFor(sessions, c) = 1
               /\ RowsFor(memories, c) =
                     IF MsgLen(c.message) >= MIN_COMMIT_MSG /\ ~SharesShortHash(c)
                     THEN 1 ELSE 0

\* A captured commit with a message of 7 characters: a Session row and no
\* Memory row
C15_ShortMessageWitness ==
    \E c \in Range(gitLog) :
        /\ C15_Case(c)
        /\ run.prev.db
        /\ c.hash \in Range(run.prev.new_commits)
        /\ c.message = "fix nav"
        /\ RowsFor(sessions, c) = 1
        /\ RowsFor(memories, c) = 0

\* A captured commit with a long message: one row of each
C15_LongMessageWitness ==
    \E c \in Range(gitLog) :
        /\ C15_Case(c)
        /\ c.hash \in Range(run.prev.new_commits)
        /\ MsgLen(c.message) >= MIN_COMMIT_MSG
        /\ RowsFor(sessions, c) = 1
        /\ RowsFor(memories, c) = 1

\* C16: a commit with a trivial message that an invocation gets from
\* get_new_commits is in the ledger when the invocation ends, no Session row
\* and no Memory row is written for it, and an invocation that finds it in
\* the ledger does not get it from get_new_commits.
C16_TrivialMarkedNotCaptured ==
    run.hook = "session_end" =>
        \A c \in Range(gitLog) :
            should_skip_commit(c.message) =>
                /\ c.hash \in Range(run.new_commits)
                      => c.hash \in Range(ledger[Project])
                /\ RowsFor(sessions, c) = 0
                /\ RowsFor(memories, c) = 0
                /\ c.hash \in run.seen => c.hash \notin Range(run.new_commits)

\* A trivial commit the invocation before the last got from get_new_commits:
\* the last invocation found it in the window and in the ledger, the store
\* has no row for it
C16_Witness ==
    /\ run.hook = "session_end"
    /\ run.prev.valid
    /\ run.db
    /\ \E c \in Range(gitLog) :
          /\ should_skip_commit(c.message)
          /\ c.hash \in Range(run.prev.new_commits)
          /\ c.hash \in Range(run.log)
          /\ c.hash \in run.seen
          /\ c.hash \notin Range(run.new_commits)
          /\ RowsFor(sessions, c) = 0

\* The places in the log, the most recent commit first, of the commits that
\* are among the 10 most recent and not in the ledger
Qualifying ==
    {i \in 1..Len(gitLog) :
        i <= LOG_WINDOW /\ gitLog[i].hash \notin Range(ledger[Project])}

\* C17: what get_new_commits returns for the log and the ledger are commits
\* among the 10 most recent that the ledger does not hold, at most 3 of
\* them, and the 3 most recent of these when more than 3 qualify.
C17_NewCommits ==
    LET new_commits == get_new_commits(gitLog, ledger)
    IN /\ \A k \in 1..Len(new_commits) :
             \E i \in Qualifying : new_commits[k] = gitLog[i]
       /\ Len(new_commits) <= NEW_COMMITS_CAP
       /\ Cardinality(Qualifying) > NEW_COMMITS_CAP
             => Range(new_commits) =
                   {gitLog[i] : i \in {q \in Qualifying :
                       Cardinality({p \in Qualifying : p < q}) < NEW_COMMITS_CAP}}

\* A log longer than the window, commits of the window in the ledger, the
\* most recent of them among these, and more than 3 that are not
C17_Witness ==
    /\ Len(gitLog) > LOG_WINDOW
    /\ gitLog[1].hash \in Range(ledger[Project])
    /\ Cardinality(Qualifying) > NEW_COMMITS_CAP
    /\ Len(get_new_commits(gitLog, ledger)) = NEW_COMMITS_CAP

-----------------------------------------------------------------------------
(***************************************************************************)
(* Commit capture with a git that can fail (SpecGit).  returncode is the   *)
(* exit status of "git log": 0, or 128 for every failure (exit status not  *)
(* 0, timeout after 10 s, git not found), which run_git_command answers    *)
(* alike.                                                                  *)
(***************************************************************************)
GitStatus == {0, 128}

\* run_git_command that returns stdout whatever the exit status
run_git_command_any_status(returncode, stdout) == stdout

\* run_git_command: stdout if the command exits with 0, else None, which
\* its callers take as no line ("if not output: return []")
run_git_command(returncode, stdout) == IF returncode = 0 THEN stdout ELSE <<>>

\* session_end.main, one whole invocation, git log exiting with returncode;
\* the run keeps what the invocation read of the log
SessionEndGit(returncode, uncommitted_files) ==
    LET output == run_git_command(returncode, gitLog)
        st0 == update_active_context_end(Store, Project, uncommitted_files, now)
        saved_commits == ledger
        new_commits == get_new_commits(output, saved_commits)
        w == CaptureAll([st |-> st0, saved |-> ledger], Project, new_commits, now)
    IN /\ memories' = w.st.memories
       /\ sessions' = w.st.sessions
       /\ activeContext' = w.st.active
       /\ ledger' = w.saved
       /\ run' = [git |-> returncode,
                  log |-> Hashes(RecentLog(output)),
                  new_commits |-> Hashes(new_commits)]
                    @@ EndRun(w, UnseenCommits(output, Range(ledger[Project])))
       /\ invocations' = invocations + 1
       /\ UNCHANGED <<dbExists, projectContext, embeddings, gitLog, nextCommit,
                       now, turn, settings>>

NextGit ==
    \/ \E msg \in CommitMessages :
          /\ CommitsMade < MaxNewCommits
          /\ GitCommit(msg)
    \/ /\ Len(gitLog) > LOG_WINDOW
       /\ GitReset(Len(gitLog) - 2)
    \/ \E returncode \in GitStatus, files \in {<<>>, <<"a.py">>} :
          /\ invocations < MaxRuns
          /\ SessionEndGit(returncode, files)

SpecGit == InitCommit /\ [][NextGit]_vars

\* The step is an invocation of session_end whose git log fails
GitFailedStep ==
    /\ invocations' = invocations + 1
    /\ run'.hook = "session_end"
    /\ run'.git # 0

\* C21: an invocation of session_end whose git log fails writes no Session
\* row and no Memory row, leaves the ledger as it is, and ends as an
\* invocation that found no commit.
C21_GitFailureIsNoData ==
    [][GitFailedStep => /\ UNCHANGED <<memories, sessions, ledger>>
                        /\ run'.hook = "session_end"
                        /\ run'.new_commits = <<>>]_vars

\* git log failed in a repository that has a commit the ledger does not
\* hold, the store being there: nothing was captured
C21_Witness ==
    /\ run.hook = "session_end"
    /\ run.git = 128
    /\ run.db
    /\ UnseenCommits(gitLog, Range(ledger[Project])) # <<>>
    /\ run.sessionsFor = {}
    /\ run.new_commits = <<>>

-----------------------------------------------------------------------------
(***************************************************************************)
(* Commit capture while the store comes into being (SpecRetry): the hooks  *)
(* are installed before project_init of the MCP server creates             *)
(* sessions.db.                                                            *)
(***************************************************************************)
\* sessions.db is created: os.path.exists(DB_PATH) holds from now on
CreateStore ==
    /\ ~dbExists
    /\ dbExists' = TRUE
    /\ UNCHANGED <<memories, sessions, activeContext, projectContext, embeddings,
                   ledger, gitLog, nextCommit, now, invocations, turn, run,
                   settings>>

NextRetry ==
    \/ NextCommit
    \/ CreateStore

SpecRetry == InitCommit /\ [][NextRetry]_vars

\* The case of C20: the last invocation of session_end found the store and
\* the same window of the log as the one before it, which found no store;
\* c is a commit that one got from get_new_commits and did not skip
C20_Case(c) ==
    /\ run.hook = "session_end"
    /\ run.prev.valid
    /\ ~run.prev.db
    /\ run.db
    /\ run.log = run.prev.log
    /\ c.hash \in Range(run.prev.new_commits)
    /\ ~should_skip_commit(c.message)

\* C20: in that case the store has a Session row for the commit when the
\* last invocation ends.
C20_WrittenLater ==
    \A c \in Range(gitLog) : C20_Case(c) => RowsFor(sessions, c) >= 1

\* The commit whose capture failed is in the ledger, the invocation that
\* found the store did not get it from get_new_commits, and it has no row
C20_Witness ==
    \E c \in Range(gitLog) :
        /\ C20_Case(c)
        /\ c.hash \in run.seen
        /\ c.hash \notin Range(run.new_commits)
        /\ RowsFor(sessions, c) = 0
        /\ RowsFor(memories, c) = 0

-----------------------------------------------------------------------------
(***************************************************************************)
(* post_prompt_submit.py: texts.                                           *)
(*                                                                         *)
(* A text is a sequence of tokens, each a literal piece of the string: a   *)
(* word or phrase, or one whitespace character.  The string is their       *)
(* concatenation; two words are never adjacent, so every word stands       *)
(* between word boundaries (\b).                                           *)
(***************************************************************************)
Fill15 == "xxxxxxxxxxxxxxx"
Fill42 == "xxxxxxxxxxxxxxxxxxxxxxxxxxxxxxxxxxxxxxxxxx"

Words == {"decided", "DECIDED", "root cause", "decided: root cause",
          "#skip", "#remember", "ok", Fill15, Fill42}
Whitespace == {" ", "\n"}
Tokens == Words \cup Whitespace

MaxTokens == 3          \* tokens of a text

Texts ==
    {c \in UNION {[1..k -> Tokens] : k \in 0..MaxTokens} :
        \A i \in 1..(Len(c) - 1) : c[i] \in Whitespace \/ c[i + 1] \in Whitespace}

\* len() of a token
Width(tok) ==
    CASE tok \in {"decided", "DECIDED"} -> 7
      [] tok = "root cause" -> 10
      [] tok = "decided: root cause" -> 19
      [] tok = "#skip" -> 5
      [] tok = "#remember" -> 9
      [] tok = "ok" -> 2
      [] tok = Fill15 -> 15
      [] tok = Fill42 -> 42
      [] tok \in Whitespace -> 1

\* len(content)
RECURSIVE TextLen(_)
TextLen(c) == IF c = <<>> THEN 0 ELSE Width(Head(c)) + TextLen(Tail(c))

\* str.lower()
LowerTok(tok) == IF tok = "DECIDED" THEN "decided" ELSE tok
Lower(c) == [i \in 1..Len(c) |-> LowerTok(c[i])]

\* str.strip()
RECURSIVE LStrip(_)
LStrip(c) ==
    IF c # <<>> /\ Head(c) \in Whitespace THEN LStrip(Tail(c)) ELSE c

RECURSIVE RStrip(_)
RStrip(c) ==
    IF c # <<>> /\ c[Len(c)] \in Whitespace
    THEN RStrip(SubSeq(c, 1, Len(c) - 1)) ELSE c

Strip(c) == RStrip(LStrip(c))

\* re.sub(r'\s+', ' ', c): every run of whitespace becomes one space
RECURSIVE CollapseSpace(_)
CollapseSpace(c) ==
    IF c = <<>> THEN <<>>
    ELSE IF Head(c) \in Whitespace
         THEN <<" ">> \o CollapseSpace(LStrip(c))
         ELSE <<Head(c)>> \o CollapseSpace(Tail(c))

\* normalized = re.sub(r'\s+', ' ', content.lower().strip())
Normalize(content) == CollapseSpace(Strip(Lower(content)))

\* compute_content_hash without the normalization
compute_content_hash_raw(content) == <<"md5", content>>

\* compute_content_hash: the first 16 hex digits of the md5 of the normalized
\* text, taken to be free of collisions on the texts of the model.
compute_content_hash(content) == <<"md5", Normalize(content)>>

-----------------------------------------------------------------------------
(***************************************************************************)
(* post_prompt_submit.py: filters and classification.                      *)
(***************************************************************************)
\* USER_OVERRIDES, the markers among the tokens
SkipMarkers == {"#skip"}
RememberMarkers == {"#remember"}

\* check_user_override with the remember markers looked for first
check_user_override_remember_first(content) ==
    LET content_lower == Lower(content)
    IN IF \E marker \in RememberMarkers : marker \in Range(content_lower)
       THEN [force_remember |-> TRUE, force_skip |-> FALSE]
       ELSE IF \E marker \in SkipMarkers : marker \in Range(content_lower)
            THEN [force_remember |-> FALSE, force_skip |-> TRUE]
            ELSE [force_remember |-> FALSE, force_skip |-> FALSE]

\* check_user_override: (force_remember, force_skip)
check_user_override(content) ==
    LET content_lower == Lower(content)
    IN IF \E marker \in SkipMarkers : marker \in Range(content_lower)
       THEN [force_remember |-> FALSE, force_skip |-> TRUE]
       ELSE IF \E marker \in RememberMarkers : marker \in Range(content_lower)
            THEN [force_remember |-> TRUE, force_skip |-> FALSE]
            ELSE [force_remember |-> FALSE, force_skip |-> FALSE]

\* SKIP_PATTERNS, matched with re.match and re.IGNORECASE against
\* content.strip(): a greeting alone (patterns 1-3, followed by [\s!.]*), at
\* most 20 characters on one line (r'^.{0,20}$': '.' matches no newline), or
\* nothing (r'^\s*$').  The question words of patterns 6-8 are not tokens.
Greetings == {"ok"}
SHORT_TEXT == 20

should_skip_content(content) ==
    LET stripped == Strip(content)
    IN \/ /\ stripped # <<>>
          /\ LowerTok(Head(stripped)) \in Greetings
          /\ \A i \in 2..Len(stripped) : stripped[i] \in Whitespace
       \/ /\ TextLen(stripped) <= SHORT_TEXT
          /\ "\n" \notin Range(stripped)
       \/ stripped = <<>>

\* MEMORY_PATTERNS in priority order; confidence in hundredths; words are the
\* tokens in which a pattern of the type is found by re.search with
\* re.IGNORECASE: 'decided' by \b(decided|chose|...)\b, 'root cause' by
\* \b(the issue was|the problem was|root cause)\b, 'remember' (in '#remember')
\* by \b(remember|don't forget|...)\b.
MEMORY_PATTERNS == <<
    [type |-> "decision", priority |-> 1, confidence |-> 90, min_length |-> 50,
     words |-> {"decided", "decided: root cause"}],
    [type |-> "error", priority |-> 2, confidence |-> 85, min_length |-> 30,
     words |-> {"root cause", "decided: root cause"}],
    [type |-> "learning", priority |-> 3, confidence |-> 85, min_length |-> 40,
     words |-> {}],
    [type |-> "implementation", priority |-> 4, confidence |-> 80, min_length |-> 60,
     words |-> {}],
    [type |-> "important", priority |-> 5, confidence |-> 75, min_length |-> 30,
     words |-> {"#remember"}],
    [type |-> "code", priority |-> 6, confidence |-> 70, min_length |-> 200,
     words |-> {}] >>

\* any(re.search(pattern, content, re.IGNORECASE | re.MULTILINE) ...)
PatternMatches(config, content) ==
    \E i \in 1..Len(content) : LowerTok(content[i]) \in config.words

None == [type |-> "None"]

\* sorted(MEMORY_PATTERNS.items(), key=priority), as the indices of the table
RECURSIVE SortedBy(_, _)
SortedBy(key(_), ks) ==
    IF ks = {} THEN <<>>
    ELSE LET k == CHOOSE a \in ks : \A b \in ks :
                      key(a) < key(b) \/ (key(a) = key(b) /\ a <= b)
         IN <<k>> \o SortedBy(key, ks \ {k})

sorted_types_by_min_length ==
    SortedBy(LAMBDA k : MEMORY_PATTERNS[k].min_length, DOMAIN MEMORY_PATTERNS)

sorted_types ==
    SortedBy(LAMBDA k : MEMORY_PATTERNS[k].priority, DOMAIN MEMORY_PATTERNS)

Detection(config) ==
    [type |-> config.type, confidence |-> config.confidence,
     priority |-> config.priority]

\* The loop of detect_memory_type from position k of sorted_types on, without
\* the check of min_length
RECURSIVE DetectFromAnyLength(_, _)
DetectFromAnyLength(k, content) ==
    IF k > Len(sorted_types) THEN None
    ELSE LET config == MEMORY_PATTERNS[sorted_types[k]]
         IN IF PatternMatches(config, content)
            THEN Detection(config)
            ELSE DetectFromAnyLength(k + 1, content)

\* The loop of detect_memory_type from position k of sorted_types on
RECURSIVE DetectFrom(_, _)
DetectFrom(k, content) ==
    IF k > Len(sorted_types) THEN None
    ELSE LET config == MEMORY_PATTERNS[sorted_types[k]]
             content_length == TextLen(content)
         IN IF content_length < config.min_length
            THEN DetectFrom(k + 1, content)
            ELSE IF PatternMatches(config, content)
                 THEN Detection(config)
                 ELSE DetectFrom(k + 1, content)

detect_memory_type(content) ==
    IF should_skip_content(content) THEN None ELSE DetectFrom(1, content)

ConfigOf(type) ==
    MEMORY_PATTERNS[CHOOSE k \in 1..Len(MEMORY_PATTERNS) : MEMORY_PATTERNS[k].type = type]

-----------------------------------------------------------------------------
(***************************************************************************)
(* post_prompt_submit.py: one invocation per turn, each its own process.   *)
(*                                                                         *)
(* turn[i] is the process i: pc "ready" (spawned, content on stdin),       *)
(* "insert" (save_memory between is_duplicate and the INSERT), "context"   *)
(* (save_memory returned, update_active_context to come), "idle" (exited). *)
(* The statements of one process on the store are separate transactions,   *)
(* those of other processes come between them.                             *)
(***************************************************************************)
DEDUP_WINDOW == 24      \* hours

\* content[:100]; every text of the model is shorter than 100 characters
Preview(content) == content

\* is_duplicate: a row of the project that holds the hash, created within
\* the last 24 hours
is_duplicate(rows, project, content_hash, t) ==
    \E id \in 1..Len(rows) :
        /\ rows[id].project = project
        /\ rows[id].tag = content_hash
        /\ rows[id].created_at > t - DEDUP_WINDOW

\* Importance without the min(10, ...) after the + 2
Importance_unclamped(detection) ==
    LET importance == Min(10, Max(1, detection.confidence \div 10))
    IN IF detection.type \in {"decision", "error"}
       THEN importance + 2 ELSE importance

\* importance = min(10, max(1, int(confidence * 10))), + 2 for decision, error
Importance(detection) ==
    LET importance == Min(10, IF detection.confidence \div 10 < 1 THEN 1
                              ELSE detection.confidence \div 10)
    IN IF detection.type \in {"decision", "error"}
       THEN Min(10, importance + 2) ELSE importance

\* update_active_context: INSERT OR REPLACE INTO active_context
\* (project, current_state, updated_at); the other columns become NULL
update_active_context(active, project, detection, content_preview, t) ==
    LET state == IF content_preview # <<>> THEN content_preview
                 ELSE <<"Active session">>
    IN [active EXCEPT ![project] =
           [current_state |-> <<detection.type, state>>, recent_files |-> NULL,
            blockers |-> NULL, last_verification |-> NULL, updated_at |-> t]]

\* The override of '#remember' with the default type of the commit path
Forced_observation == [type |-> "observation", confidence |-> 100, priority |-> 0]

\* The detection main works with: the override of '#remember' on no detection
Forced == [type |-> "important", confidence |-> 100, priority |-> 0]

\* A call of save_memory that returned, for the history in run.saves
SaveRecord(project, content, rows) ==
    [project |-> project, content |-> content, at |-> now,
     count |-> Cardinality({id \in 1..Len(rows) :
                  /\ rows[id].project = project
                  /\ Normalize(rows[id].text) = Normalize(content)})]

Exited(i, project, content, detected, inserted, upserts) ==
    turn' = [turn EXCEPT ![i] =
                [pc |-> "idle", n |-> turn[i].n, project |-> project,
                 content |-> content, detected |-> detected,
                 inserted |-> inserted, upserts |-> upserts]]

\* Claude Code fires the hook after a turn: a process in the directory of
\* the project, the conversation content on its stdin
Fire(i, project, content) ==
    /\ turn[i].pc = "idle"
    /\ turn' = [turn EXCEPT ![i] =
                   [pc |-> "ready", n |-> invocations + 1, project |-> project,
                    content |-> content]]
    /\ invocations' = invocations + 1
    /\ UNCHANGED <<storeVars, ledger, gitLog, nextCommit, now, run, settings>>

\* main, up to the first statement that other processes can come after:
\* the early returns, the update of ActiveContext alone, or save_memory up
\* to the answer of is_duplicate
PostPromptMain(i) ==
    /\ turn[i].pc = "ready"
    /\ LET project == turn[i].project
           content == turn[i].content
           override == check_user_override(content)
       IN IF content = <<>> \/ override.force_skip
          THEN /\ Exited(i, project, content, [type |-> "NotRun"], 0, 0)
               /\ UNCHANGED <<activeContext, run>>
          ELSE LET detected == detect_memory_type(content)
                   detection == IF override.force_remember /\ detected.type = "None"
                                THEN Forced ELSE detected
               IN IF detection.type = "None"
                  THEN /\ activeContext' =
                            IF dbExists
                            THEN update_active_context(activeContext, project,
                                                       None, Preview(content), now)
                            ELSE activeContext
                       /\ Exited(i, project, content, detected, 0,
                                 IF dbExists THEN 1 ELSE 0)
                       /\ UNCHANGED run
                  ELSE LET content_hash == compute_content_hash(content)
                           duplicate == is_duplicate(memories, project,
                                                     content_hash, now)
                       IN /\ turn' = [turn EXCEPT ![i] =
                                 [pc |-> IF dbExists /\ ~duplicate
                                         THEN "insert" ELSE "context",
                                  n |-> turn[i].n, project |-> project,
                                  content |-> content, detected |-> detected,
                                  detection |-> detection,
                                  content_hash |-> content_hash,
                                  inserted |-> 0, upserts |-> 0]]
                          /\ run' = IF dbExists /\ duplicate
                                    THEN [run EXCEPT !.saves = Append(@,
                                            SaveRecord(project, content, memories))]
                                    ELSE run
                          /\ UNCHANGED activeContext
    /\ UNCHANGED <<dbExists, memories, sessions, projectContext, embeddings,
                   ledger, gitLog, nextCommit, now, invocations, settings>>

\* save_memory: the INSERT INTO memories and its commit
InsertMemory(i) ==
    /\ turn[i].pc = "insert"
    /\ LET t == turn[i]
           row == MemoryRow(t.project, t.content_hash, t.content,
                            t.detection.type, Importance(t.detection), now, 0)
       IN /\ memories' = Append(memories, row)
          /\ run' = [run EXCEPT !.saves = Append(@,
                        SaveRecord(t.project, t.content, Append(memories, row)))]
    /\ turn' = [turn EXCEPT ![i].pc = "context", ![i].inserted = 1]
    /\ UNCHANGED <<dbExists, sessions, activeContext, projectContext, embeddings,
                   ledger, gitLog, nextCommit, now, invocations, settings>>

\* main after save_memory: update_active_context(project, detection, ...)
UpdateActiveContext(i) ==
    /\ turn[i].pc = "context"
    /\ activeContext' =
          IF dbExists
          THEN update_active_context(activeContext, turn[i].project,
                                     turn[i].detection, Preview(turn[i].content), now)
          ELSE activeContext
    /\ turn' = [turn EXCEPT ![i].pc = "idle",
                            ![i].upserts = IF dbExists THEN 1 ELSE 0]
    /\ UNCHANGED <<dbExists, memories, sessions, projectContext, embeddings,
                   ledger, gitLog, nextCommit, now, invocations, run,
                   settings>>

-----------------------------------------------------------------------------
(***************************************************************************)
(* One invocation of post_prompt_submit.py on any text (SpecClassify).     *)
(***************************************************************************)
\* A row of active_context left by an earlier session
StaleRow == ActiveRow(<<"Working on", <<"a.py">>>>, <<"a.py">>, 0)

InitClassify ==
    /\ settings = NoSettings
    /\ dbExists \in BOOLEAN
    /\ memories = <<>>
    /\ sessions = <<>>
    /\ \E row \in {NoRow, StaleRow} :
          activeContext = [p \in Projects |-> IF dbExists THEN row ELSE NoRow]
    /\ projectContext = [p \in Projects |-> NoRow]
    /\ embeddings = <<>>
    /\ ledger = [p \in Projects |-> <<>>]
    /\ gitLog = <<>>
    /\ nextCommit = 1
    /\ now = 1
    /\ invocations = 1
    /\ \E project \in Projects, content \in Texts :
          turn = [i \in Procs |->
                    IF i = 1 THEN [pc |-> "ready", n |-> 1, project |-> project,
                                   content |-> content]
                    ELSE NoTurn]
    /\ run = [hook |-> "post_prompt_submit", saves |-> <<>>]

NextClassify ==
    \E i \in Procs :
        \/ PostPromptMain(i)
        \/ InsertMemory(i)
        \/ UpdateActiveContext(i)

SpecClassify == InitClassify /\ [][NextClassify]_vars

\* The invocations whose main has run
Ran == {i \in Procs : turn[i].n > 0 /\ turn[i].pc # "ready"}

MatchesType(type, content) == PatternMatches(ConfigOf(type), content)

\* C6 as stated: a text that is not skip-listed and matches a decision
\* pattern and an error pattern is classified "decision", whatever its
\* length.
C6_DecisionBeforeError ==
    \A i \in Ran :
        (/\ turn[i].detected.type # "NotRun"
         /\ ~should_skip_content(turn[i].content)
         /\ MatchesType("decision", turn[i].content)
         /\ MatchesType("error", turn[i].content))
        => turn[i].detected.type = "decision"

\* C6, amended: a text that is not skip-listed, matches a decision pattern
\* and an error pattern and is at least as long as the min_length of
\* "decision" is classified "decision"; a shorter one never is, and is
\* classified "error" when it is as long as the min_length of "error".
C6_DecisionBeforeErrorIfLongEnough ==
    \A i \in Ran :
        (/\ turn[i].detected.type # "NotRun"
         /\ ~should_skip_content(turn[i].content)
         /\ MatchesType("decision", turn[i].content)
         /\ MatchesType("error", turn[i].content))
        => /\ turn[i].detected.type = "decision"
                <=> TextLen(turn[i].content) >= ConfigOf("decision").min_length
           /\ (/\ TextLen(turn[i].content) < ConfigOf("decision").min_length
               /\ TextLen(turn[i].content) >= ConfigOf("error").min_length)
              => turn[i].detected.type = "error"

C6_Witness ==
    \E i \in Ran :
        /\ MatchesType("decision", turn[i].content)
        /\ MatchesType("error", turn[i].content)
        /\ TextLen(turn[i].content) >= ConfigOf("decision").min_length
        /\ turn[i].detected.type = "decision"

\* The text the original statement of C6 fails on: both patterns, between
\* the min_length of "error" and that of "decision"
C6_ShortWitness ==
    \E i \in Ran :
        /\ MatchesType("decision", turn[i].content)
        /\ MatchesType("error", turn[i].content)
        /\ turn[i].detected.type = "error"

HasMarker(markers, content) == \E m \in markers : m \in Range(Lower(content))

\* C7: a turn whose text holds a skip marker and a remember marker is
\* skipped: check_user_override answers force-skip, and the step of main
\* writes no Memory row and leaves the ActiveContext of the project as it
\* was; the process exits with it.
C7_SkipWins ==
    [][\A i \in Procs :
          (/\ turn[i].pc = "ready"
           /\ turn'[i].pc # "ready"
           /\ HasMarker(SkipMarkers, turn[i].content)
           /\ HasMarker(RememberMarkers, turn[i].content))
          => /\ check_user_override(turn[i].content) =
                   [force_remember |-> FALSE, force_skip |-> TRUE]
             /\ memories' = memories
             /\ activeContext' = activeContext
             /\ turn'[i].pc = "idle"
             /\ turn'[i].inserted = 0 /\ turn'[i].upserts = 0]_vars

C7_Witness ==
    \E i \in Ran :
        /\ HasMarker(SkipMarkers, turn[i].content)
        /\ HasMarker(RememberMarkers, turn[i].content)
        /\ turn[i].pc = "idle"
        /\ dbExists
        /\ activeContext[turn[i].project] = StaleRow

\* C8: a text shorter than the min_length of a type is never classified as
\* that type; a text without override markers that detect_memory_type gives
\* no type makes the invocation, on a project with a store, write no Memory
\* row and upsert the ActiveContext of the project exactly once, and that of
\* no other project.
C8_MinLengthGate ==
    \A i \in Ran :
        /\ \A k \in DOMAIN MEMORY_PATTERNS :
              TextLen(turn[i].content) < MEMORY_PATTERNS[k].min_length
              => turn[i].detected.type # MEMORY_PATTERNS[k].type
        /\ (/\ turn[i].detected.type = "None"
            /\ ~HasMarker(SkipMarkers \cup RememberMarkers, turn[i].content)
            /\ dbExists)
           => /\ turn[i].pc = "idle"
              /\ turn[i].inserted = 0
              /\ memories = <<>>
              /\ turn[i].upserts = 1
              /\ activeContext[turn[i].project].current_state =
                     <<"None", Preview(turn[i].content)>>
              /\ \A p \in Projects \ {turn[i].project} :
                     activeContext[p] \in {NoRow, StaleRow}

\* The example of the claim: 10 characters that match an error pattern
C8_Witness ==
    \E i \in Ran :
        /\ turn[i].content = <<"root cause">>
        /\ MatchesType("error", turn[i].content)
        /\ TextLen(turn[i].content) = 10
        /\ turn[i].detected.type = "None"
        /\ dbExists
        /\ turn[i].upserts = 1
        /\ memories = <<>>

\* The Memory rows that hold the text of the turn of process i
RowsOfTurn(i) ==
    {id \in 1..Len(memories) :
        /\ memories[id].project = turn[i].project
        /\ memories[id].text = turn[i].content}

\* C27: a turn whose text should_skip_content lists (a greeting, a blank or
\* a short text) writes no Memory row, whatever override markers the text
\* carries.
C27_SkipListedNeverStored ==
    \A i \in Procs :
        (turn[i].n > 0 /\ should_skip_content(turn[i].content))
        => RowsOfTurn(i) = {}

\* A short text with a remember marker, stored
C27_Witness ==
    \E i \in Ran :
        /\ should_skip_content(turn[i].content)
        /\ HasMarker(RememberMarkers, turn[i].content)
        /\ ~HasMarker(SkipMarkers, turn[i].content)
        /\ turn[i].pc = "idle"
        /\ turn[i].inserted = 1
        /\ RowsOfTurn(i) # {}

-----------------------------------------------------------------------------
(***************************************************************************)
(* Conversation capture over several turns: the hook processes one after   *)
(* the other (SpecSeq) and at the same time (Spec).                        *)
(***************************************************************************)
MaxTurns == 3           \* hook invocations
TickHours == 12         \* the clock advances in steps of TickHours
MaxTime == 36           \* hours

\* The turns of the conversation: a decision, the same text in another case
\* and spacing, a greeting, a turn marked #skip
TurnTexts ==
    {<<"decided", " ", Fill42>>, <<"DECIDED", "\n", Fill42, " ">>,
     <<"ok">>, <<"#skip", " ", Fill42>>}

AllIdle == \A i \in Procs : turn[i].pc = "idle"

\* Time passes between turns
Tick ==
    /\ AllIdle
    /\ now + TickHours <= MaxTime
    /\ now' = now + TickHours
    /\ UNCHANGED <<storeVars, ledger, gitLog, nextCommit, invocations, turn, run, settings>>

Init ==
    /\ settings = NoSettings
    /\ dbExists = TRUE
    /\ memories = <<>>
    /\ sessions = <<>>
    /\ activeContext = [p \in Projects |-> NoRow]
    /\ projectContext = [p \in Projects |-> NoRow]
    /\ embeddings = <<>>
    /\ ledger = [p \in Projects |-> <<>>]
    /\ gitLog = <<>>
    /\ nextCommit = 1
    /\ now = 0
    /\ invocations = 0
    /\ turn = [i \in Procs |-> NoTurn]
    /\ run = [hook |-> "post_prompt_submit", saves |-> <<>>]

\* The hook fires once per turn; a turn does not wait for the hook of the
\* turn before it
Next ==
    \/ \E i \in Procs, project \in Projects, content \in TurnTexts :
          /\ invocations < MaxTurns
          /\ Fire(i, project, content)
    \/ \E i \in Procs : PostPromptMain(i)
    \/ \E i \in Procs : InsertMemory(i)
    \/ \E i \in Procs : UpdateActiveContext(i)
    \/ Tick

Spec == Init /\ [][Next]_vars

\* Every hook process exits before the next turn ends
NextSeq ==
    \/ \E i \in Procs, project \in Projects, content \in TurnTexts :
          /\ invocations < MaxTurns
          /\ AllIdle
          /\ Fire(i, project, content)
    \/ \E i \in Procs : PostPromptMain(i)
    \/ \E i \in Procs : InsertMemory(i)
    \/ \E i \in Procs : UpdateActiveContext(i)
    \/ Tick

SpecSeq == Init /\ [][NextSeq]_vars

\* The calls of save_memory for a project and a canonical form, in order
SavesOf(project, canon) ==
    SelectSeq(run.saves,
              LAMBDA s : s.project = project /\ Normalize(s.content) = canon)

\* C3: the first two saves of texts with one canonical form for a project,
\* one after the other: less than 24 hours apart they leave exactly one
\* memory of that content, more than 24 hours apart the second save stores
\* a second memory.
C3_DedupWithinWindow ==
    \A project \in Projects, content \in TurnTexts :
        LET saves == SavesOf(project, Normalize(content))
        IN /\ Len(saves) >= 1 => saves[1].count = 1
           /\ Len(saves) >= 2 =>
                /\ saves[2].at - saves[1].at < DEDUP_WINDOW => saves[2].count = 1
                /\ saves[2].at - saves[1].at > DEDUP_WINDOW => saves[2].count = 2

\* Two texts that differ, saved within the window, and two saved after it
C3_Witness ==
    \E project \in Projects, content \in TurnTexts :
        LET saves == SavesOf(project, Normalize(content))
        IN /\ Len(saves) >= 3
           /\ saves[1].content # saves[2].content
           /\ saves[2].at - saves[1].at < DEDUP_WINDOW
           /\ saves[2].count = 1
           /\ saves[3].at - saves[1].at > DEDUP_WINDOW
           /\ saves[3].count = 2

\* C4: two Memory rows of one project with one content hash are created at
\* least 24 hours apart.
C4_OnePerWindow ==
    \A a, b \in 1..Len(memories) :
        (/\ a < b
         /\ memories[a].project = memories[b].project
         /\ memories[a].tag = memories[b].tag)
        => memories[b].created_at - memories[a].created_at >= DEDUP_WINDOW

\* Two processes between is_duplicate and the INSERT, for one project and
\* one content hash
C4_RaceWitness ==
    \E i, j \in Procs :
        /\ i # j
        /\ turn[i].pc = "insert" /\ turn[j].pc = "insert"
        /\ turn[i].project = turn[j].project
        /\ turn[i].content_hash = turn[j].content_hash

-----------------------------------------------------------------------------
(***************************************************************************)
(* session_start.py and pre_prompt_submit.py: retrieval.                   *)
(*                                                                         *)
(* A query answers with the ids of its rows, in the order of its ORDER BY; *)
(* rows the ORDER BY leaves equal, and the rows of a query without one,    *)
(* come by ascending id.  A memory matches a keyword in the full-text      *)
(* index when the keyword is one of the words of its content.              *)
(***************************************************************************)
Global == "global"

\* The working directories of the two projects
AppDir == "apps/app"
ToolDir == "tools/cli"
Dirs == {AppDir, ToolDir}

\* session_start.get_project_from_cwd: the path component after /apps/ or
\* /tools/
get_project_from_cwd(cwd) == IF cwd = AppDir THEN "app" ELSE "cli"

\* pre_prompt_submit.get_current_project: the component below apps, or
\* "tools/" and the component below tools
get_current_project(cwd) == IF cwd = AppDir THEN "app" ELSE "tools/cli"

\* re.findall(r'[가-힣]{2,}|[a-zA-Z]{3,}', text), lowercased
WordsOf(text) ==
    CASE text = "wip" -> {"wip"}
      [] text = "fix nav" -> {"fix", "nav"}
      [] text = "fix crash in login flow" -> {"fix", "crash", "login", "flow"}
      [] text = "use riverpod" -> {"use", "riverpod"}
      [] text = "login" -> {"login"}
      [] text = "refactor" -> {"refactor"}
      [] text = "" -> {}

\* KEYWORD_PATTERNS: the categories one of whose patterns is a substring of
\* the lowercased text
CategoriesOf(text) ==
    CASE text \in {"fix nav"} -> {"error"}
      [] text \in {"fix crash in login flow"} -> {"error", "auth"}
      [] text = "use riverpod" -> {"state"}
      [] text = "login" -> {"auth"}
      [] text \in {"wip", "refactor", ""} -> {}

\* pre_prompt_submit.extract_keywords: list(set(found_categories + keywords))
extract_keywords(text) ==
    IF text = "" THEN {} ELSE CategoriesOf(text) \cup WordsOf(text)

\* keyword LIKE-matches content: '%keyword%'
Like(keyword, text) ==
    \E w \in WordsOf(text) :
        \/ keyword = w
        \/ <<keyword, w>> \in {<<"use", "user">>}

\* The first n elements of list(a set): any n of them
FirstOf(keywords, n) ==
    {ks \in SUBSET keywords : Cardinality(ks) = Min(n, Cardinality(keywords))}

\* The ids of the rows that satisfy P
IdsWhere(rows, P(_)) == {id \in 1..Len(rows) : P(rows[id])}

\* ORDER BY: the ids in the order of the strict order before, equal rows by
\* ascending id
OrderBy(ids, before(_, _)) ==
    LET Earlier(a, b) == before(a, b) \/ (~before(b, a) /\ a < b)
    IN [k \in 1..Cardinality(ids) |->
           CHOOSE a \in ids : Cardinality({b \in ids : Earlier(b, a)}) = k - 1]

\* deduplicate_memories without its seen_ids: every memory is kept
deduplicate_memories_keep_all(ids) == ids

\* deduplicate_memories: the first occurrence of every id
RECURSIVE deduplicate_memories(_)
deduplicate_memories(ids) ==
    IF ids = <<>> THEN <<>>
    ELSE LET front == deduplicate_memories(SubSeq(ids, 1, Len(ids) - 1))
             last == ids[Len(ids)]
         IN IF last \in Range(front) THEN front ELSE Append(front, last)

SLOT_CONFIG == [semantic |-> 3, git_related |-> 2, recent |-> 3,
                important |-> 2, fallback |-> 2]
MERGED_CAP == 12
SHOWN_CAP == 8
EMBEDDING_DIM == 384
RECENT_DAYS == 7

\* bytes_to_float_array: no floats of no bytes, len(data) // 4 floats of a
\* whole number of 4-byte floats, struct.error of any other length
bytes_to_float_array(data) ==
    IF data.bytes = 0 THEN [raised |-> FALSE, floats |-> 0, dir |-> 0]
    ELSE IF data.bytes % 4 # 0 THEN [raised |-> TRUE, floats |-> 0, dir |-> 0]
    ELSE [raised |-> FALSE, floats |-> data.bytes \div 4, dir |-> data.dir]

\* "row and row[0]": the memory has a row of embeddings with a blob in it
HasBlob(embs, id) == id \in DOMAIN embs /\ embs[id].bytes > 0

\* get_average_embedding: the directions of the seeds whose embedding has
\* the dimension (their mean is the query vector); raised when a blob of a
\* seed does not unpack
get_average_embedding(embs, memory_ids) ==
    LET read == {id \in Range(Take(memory_ids, 10)) : HasBlob(embs, id)}
    IN [raised |-> \E id \in read : bytes_to_float_array(embs[id]).raised,
        dirs |-> [id \in {i \in read :
                            bytes_to_float_array(embs[i]).floats = EMBEDDING_DIM}
                    |-> embs[id].dir]]

\* cosine_similarity of the mean of unit vectors along orthogonal directions
\* with the unit vector along dir, as the rank it gives: the number of
\* seeds along dir
cosine_similarity(query_embedding, dir) ==
    Cardinality({id \in DOMAIN query_embedding : query_embedding[id] = dir})

\* search_semantic_memories; raised is the struct.error it lets through
search_semantic_memories(rows, embs, project, keywords, limit) ==
    LET fts == IdsWhere(rows, LAMBDA r : r.project = project
                                         /\ WordsOf(r.text) \cap keywords # {})
        important == IdsWhere(rows, LAMBDA r :
                        /\ r.project = project
                        /\ (r.memory_type \in {"decision", "error"}
                            \/ r.importance >= 7))
        seed_ids ==
            IF fts # {} THEN Take(OrderBy(fts, LAMBDA a, b : FALSE), 5)
            ELSE Take(OrderBy(important, LAMBDA a, b :
                         rows[a].created_at > rows[b].created_at), 5)
        query == get_average_embedding(embs, seed_ids)
        joined == {id \in IdsWhere(rows, LAMBDA r : r.project = project) :
                     id \in DOMAIN embs /\ id \notin Range(seed_ids)}
        read == {id \in joined : embs[id].bytes > 0}
        results == {id \in read :
                      bytes_to_float_array(embs[id]).floats = EMBEDDING_DIM}
    IN IF seed_ids = <<>> THEN [raised |-> FALSE, ids |-> <<>>]
       ELSE IF query.raised THEN [raised |-> TRUE, ids |-> <<>>]
       ELSE IF DOMAIN query.dirs = {} THEN [raised |-> FALSE, ids |-> <<>>]
       ELSE IF \E id \in read : bytes_to_float_array(embs[id]).raised
            THEN [raised |-> TRUE, ids |-> <<>>]
       ELSE [raised |-> FALSE,
             ids |-> Take(OrderBy(results, LAMBDA a, b :
                            cosine_similarity(query.dirs, embs[a].dir)
                              > cosine_similarity(query.dirs, embs[b].dir)),
                          limit)]

\* extract_git_keywords: the words of the last 5 commit messages
RECURSIVE extract_git_keywords(_)
extract_git_keywords(log) ==
    IF log = <<>> THEN {}
    ELSE WordsOf(Head(log).message) \cup extract_git_keywords(Take(Tail(log), 4))

\* search_memories_by_keywords, keywords being keywords[:10]
search_memories_by_keywords(rows, project, keywords, limit) ==
    IF keywords = {} THEN <<>>
    ELSE Take(OrderBy(IdsWhere(rows, LAMBDA r : r.project = project
                                  /\ WordsOf(r.text) \cap keywords # {}),
                      LAMBDA a, b :
                         \/ rows[a].importance > rows[b].importance
                         \/ /\ rows[a].importance = rows[b].importance
                            /\ rows[a].created_at > rows[b].created_at),
              limit)

search_recent_memories(rows, project, days, limit, t) ==
    Take(OrderBy(IdsWhere(rows, LAMBDA r : r.project = project
                             /\ r.created_at > t - days * 24),
                 LAMBDA a, b :
                    \/ rows[a].created_at > rows[b].created_at
                    \/ /\ rows[a].created_at = rows[b].created_at
                       /\ rows[a].importance > rows[b].importance),
         limit)

search_important_memories(rows, project, limit) ==
    Take(OrderBy(IdsWhere(rows, LAMBDA r : r.project = project
                             /\ (r.memory_type \in {"decision", "error"}
                                 \/ r.importance >= 8)),
                 LAMBDA a, b :
                    \/ rows[a].importance > rows[b].importance
                    \/ /\ rows[a].importance = rows[b].importance
                       /\ rows[a].created_at > rows[b].created_at),
         limit)

\* accessed_at of a row; the INSERTs of the hooks do not name the column,
\* their rows have NULL there, which sorts below every time
AccessedAt(row) == IF "accessed_at" \in DOMAIN row THEN row.accessed_at ELSE -1

ByImportanceAccessed(rows, a, b) ==
    \/ rows[a].importance > rows[b].importance
    \/ /\ rows[a].importance = rows[b].importance
       /\ AccessedAt(rows[a]) > AccessedAt(rows[b])

search_fallback_memories(rows, project, limit) ==
    Take(OrderBy(IdsWhere(rows, LAMBDA r : r.project = project),
                 LAMBDA a, b : ByImportanceAccessed(rows, a, b)),
         limit)

\* The row of a table for a key, NoRow for a key the table does not hold
RowOf(table, key) == IF key \in DOMAIN table THEN table[key] ELSE NoRow

\* json.loads of a stored field raises
Malformed(row, field) == row # NoRow /\ row[field] = "malformed"

\* session_start.main from the keywords on: kw5 and kw10 are keywords[:5]
\* and keywords[:10] of the list extract_git_keywords returned; phases is
\* what the five searches returned, in the order main concatenates them
SessionStartRun(project, kw5, kw10) ==
    LET semantic == search_semantic_memories(memories, embeddings, project,
                                             kw5, SLOT_CONFIG.semantic)
        git_memories == search_memories_by_keywords(memories, project,
                            kw10, SLOT_CONFIG.git_related)
        recent_memories == search_recent_memories(memories, project, RECENT_DAYS,
                                                  SLOT_CONFIG.recent, now)
        important_memories == search_important_memories(memories, project,
                                                        SLOT_CONFIG.important)
        fallback_memories == search_fallback_memories(memories, project,
                                                      SLOT_CONFIG.fallback)
        all_memories == Take(deduplicate_memories(
                                semantic.ids \o git_memories \o recent_memories
                                  \o important_memories \o fallback_memories),
                             MERGED_CAP)
        \* load_project_context: json.loads(tech_stack)
        context_raised == Malformed(RowOf(projectContext, project), "tech_stack")
    IN IF ~dbExists
       THEN [hook |-> "session_start", project |-> project, keywords |-> {},
             merged |-> FALSE, phases |-> <<>>, all_memories |-> <<>>,
             printed |-> "no database", shown |-> <<>>]
       ELSE IF semantic.raised
       THEN [hook |-> "session_start", project |-> project, keywords |-> kw10,
             merged |-> FALSE, phases |-> <<>>, all_memories |-> <<>>,
             printed |-> "nothing", shown |-> <<>>]
       ELSE [hook |-> "session_start", project |-> project, keywords |-> kw10,
             merged |-> TRUE,
             phases |-> <<semantic.ids, git_memories, recent_memories,
                          important_memories, fallback_memories>>,
             all_memories |-> all_memories,
             printed |-> IF context_raised THEN "nothing" ELSE "session-context",
             shown |-> IF context_raised THEN <<>>
                       ELSE Take(all_memories, SHOWN_CAP)]

\* session_start.main
SessionStartMain(cwd) ==
    LET project == get_project_from_cwd(cwd)
        git_keywords == extract_git_keywords(gitLog)
    IN /\ \E kw10 \in FirstOf(git_keywords, 10) :
          \E kw5 \in FirstOf(kw10, 5) :
             run' = SessionStartRun(project, kw5, kw10)
       /\ UNCHANGED <<storeVars, ledger, gitLog, nextCommit, now, invocations, turn, settings>>

\* search_relevant_memories, keywords being the list extract_keywords made:
\* the rows of the full-text index for keywords[:5], then those a LIKE finds
\* for each of keywords[:3]
RECURSIVE LikeSearch(_, _, _, _, _, _)
LikeSearch(rows, project, keywords, results, remaining, limit) ==
    IF keywords = <<>> \/ Len(results) >= limit THEN results
    ELSE LET found == Take(OrderBy(
                          IdsWhere(rows, LAMBDA r :
                             /\ r.project \in {project, Global}
                             /\ Like(Head(keywords), r.text)),
                          LAMBDA a, b :
                             \/ rows[a].importance > rows[b].importance
                             \/ /\ rows[a].importance = rows[b].importance
                                /\ rows[a].created_at > rows[b].created_at),
                        remaining)
             seen_ids == {results[i].id : i \in 1..Len(results)}
             fresh == SelectSeq(found, LAMBDA id : id \notin seen_ids)
         IN LikeSearch(rows, project, Tail(keywords),
                       results \o [i \in 1..Len(fresh) |->
                                     [id |-> fresh[i], match_type |-> "keyword"]],
                       remaining, limit)

search_relevant_memories(rows, project, keywords, limit) ==
    IF keywords = <<>> THEN <<>>
    ELSE LET fts == Take(OrderBy(
                        IdsWhere(rows, LAMBDA r :
                           /\ r.project \in {project, Global}
                           /\ WordsOf(r.text) \cap Range(Take(keywords, 5)) # {}),
                        LAMBDA a, b :
                           \/ rows[a].importance > rows[b].importance
                           \/ /\ rows[a].importance = rows[b].importance
                              /\ rows[a].created_at > rows[b].created_at),
                      limit)
             results == [i \in 1..Len(fts) |-> [id |-> fts[i], match_type |-> "fts"]]
         IN Take(LikeSearch(rows, project, Take(keywords, 3), results,
                            limit - Len(results), limit),
                 limit)

RELEVANT_LIMIT == 5

\* load_full_context; none is the return of None
load_full_context(project, keywords) ==
    LET fixed_row == RowOf(projectContext, project)
        active_row == RowOf(activeContext, project)
        last_session == \E i \in 1..Len(sessions) : sessions[i].project = project
        matched == search_relevant_memories(memories, project, keywords,
                                            RELEVANT_LIMIT)
        by_importance ==
            Take(OrderBy(IdsWhere(memories, LAMBDA r : r.project \in {project, Global}),
                         LAMBDA a, b : ByImportanceAccessed(memories, a, b)),
                 RELEVANT_LIMIT)
        relevant_memories ==
            IF matched # <<>> THEN matched
            ELSE [i \in 1..Len(by_importance) |->
                    [id |-> by_importance[i], match_type |-> "importance"]]
    IN IF ~dbExists THEN [none |-> TRUE, relevantMemories |-> <<>>]
       ELSE IF fixed_row = NoRow /\ active_row = NoRow /\ ~last_session
       THEN [none |-> TRUE, relevantMemories |-> <<>>]
       ELSE IF Malformed(fixed_row, "tech_stack")
       THEN [none |-> TRUE, relevantMemories |-> <<>>]
       ELSE [none |-> FALSE, relevantMemories |-> relevant_memories]

\* format_rich_context: the memories of the output, those related to the
\* query (the matches among the first 3) or else the first 5 key memories
format_rich_context(context) ==
    LET relevant == context.relevantMemories
        QueryMatch(m) == m.match_type \in {"fts", "keyword"}
        has_query_match == \E i \in 1..Len(relevant) : QueryMatch(relevant[i])
    IN IF has_query_match THEN SelectSeq(Take(relevant, 3), QueryMatch)
       ELSE Take(relevant, 5)

\* The orders list(set(...)) can give the keywords
ListsOf(keywords) ==
    {l \in [1..Cardinality(keywords) -> keywords] : Range(l) = keywords}

\* pre_prompt_submit.main
PrePromptMain(cwd, user_query) ==
    LET project == get_current_project(cwd)
    IN /\ \E keywords \in ListsOf(extract_keywords(user_query)) :
            LET context == load_full_context(project, keywords)
            IN run' = [hook |-> "pre_prompt_submit", project |-> project,
                       query |-> user_query, keywords |-> keywords,
                       matched |-> search_relevant_memories(memories, project,
                                        keywords, RELEVANT_LIMIT),
                       context |-> context,
                       printed |-> IF context.none THEN "new" ELSE "project-context",
                       shown |-> IF context.none THEN <<>>
                                 ELSE format_rich_context(context)]
       /\ UNCHANGED <<storeVars, ledger, gitLog, nextCommit, now, invocations, turn, settings>>

-----------------------------------------------------------------------------
(***************************************************************************)
(* Retrieval over the stores a project can have (SpecRetrieve).            *)
(***************************************************************************)
MaxMemories == 3        \* rows of memories, the first of SeedRows

Today == 720            \* the hour of the retrieval
Lately == 700
LongAgo == 100

Seed(project, text, mtype, importance, t) ==
    [project |-> project, tag |-> <<"seed", text>>, text |-> text,
     memory_type |-> mtype, importance |-> importance, created_at |-> t,
     accessed_at |-> t, commit |-> 0]

SeedRows == <<
    Seed(Project, "fix crash in login flow", "error", 7, Lately),
    Seed(Project, "use riverpod", "observation", 5, LongAgo),
    Seed(Global, "use riverpod", "learning", 8, LongAgo),
    Seed(OtherProject, "fix nav", "decision", 9, Lately),
    Seed(Project, "fix nav", "decision", 9, LongAgo) >>

\* The blobs of the table embeddings: none, a vector of the dimension along
\* one of two directions, a vector one float short, and one a byte too long
Blobs ==
    {[bytes |-> 0, dir |-> 0],
     [bytes |-> 4 * EMBEDDING_DIM, dir |-> 1],
     [bytes |-> 4 * EMBEDDING_DIM, dir |-> 2],
     [bytes |-> 4 * EMBEDDING_DIM - 4, dir |-> 1],
     [bytes |-> 4 * EMBEDDING_DIM + 1, dir |-> 1]}

Queries == {"", "refactor", "login"}

\* The rows of SeedRows at the indices in chosen, in their order
RECURSIVE Chosen(_, _)
Chosen(k, chosen) ==
    IF k = 0 THEN <<>>
    ELSE IF k \in chosen THEN Append(Chosen(k - 1, chosen), SeedRows[k])
    ELSE Chosen(k - 1, chosen)

InitRetrieve ==
    /\ settings = NoSettings
    /\ dbExists \in BOOLEAN
    /\ \E chosen \in SUBSET (1..Min(MaxMemories, Len(SeedRows))) :
          memories = IF dbExists THEN Chosen(Len(SeedRows), chosen) ELSE <<>>
    /\ \E ids \in SUBSET (1..Len(memories)) : embeddings \in [ids -> Blobs]
    /\ \E fixed \in {NoRow, [tech_stack |-> "object"], [tech_stack |-> "malformed"]} :
          projectContext = [p \in Projects |->
                              IF dbExists /\ p = Project THEN fixed ELSE NoRow]
    /\ \E active \in {NoRow, StaleRow} :
          activeContext = [p \in Projects |->
                             IF dbExists /\ p = Project THEN active ELSE NoRow]
    /\ \E session \in BOOLEAN :
          sessions = IF dbExists /\ session
                     THEN <<[project |-> Project, last_work |-> "fix nav",
                             current_status |-> <<"Commit", 1>>, commit |-> 1,
                             timestamp |-> Lately]>>
                     ELSE <<>>
    /\ \E log \in {<<>>, <<[hash |-> 1, message |-> "fix crash in login flow"]>>} :
          gitLog = log
    /\ ledger = [p \in Projects |-> <<>>]
    /\ nextCommit = Len(gitLog) + 1
    /\ now = Today
    /\ invocations = 0
    /\ turn = [i \in Procs |-> NoTurn]
    /\ run = [hook |-> "none"]

NextRetrieve ==
    \/ \E cwd \in Dirs : SessionStartMain(cwd)
    \/ \E cwd \in Dirs, user_query \in Queries : PrePromptMain(cwd, user_query)

SpecRetrieve == InitRetrieve /\ [][NextRetrieve]_vars

\* The blob of a memory unpacks to a vector of the dimension
Usable(id) ==
    /\ HasBlob(embeddings, id)
    /\ ~bytes_to_float_array(embeddings[id]).raised
    /\ bytes_to_float_array(embeddings[id]).floats = EMBEDDING_DIM

MemoriesOf(projects) == IdsWhere(memories, LAMBDA r : r.project \in projects)

\* The case of C9: session_start ran for a project that has a memory, none
\* of its memories matches a keyword of the git log, none has a usable
\* embedding
C9_Case ==
    /\ run.hook = "session_start"
    /\ MemoriesOf({run.project}) # {}
    /\ \A id \in MemoriesOf({run.project}) :
          /\ WordsOf(memories[id].text) \cap run.keywords = {}
          /\ ~Usable(id)

\* C9: in that case session_start produces the merged list and the list
\* holds at least one memory.
C9_FallbackNonEmpty == C9_Case => run.merged /\ Len(run.all_memories) >= 1

\* The fallback phase at work: the blobs of the project are absent, empty
\* or short, and the merged list holds the memories of the project
C9_Witness ==
    /\ C9_Case
    /\ \E id \in MemoriesOf({run.project}) :
          HasBlob(embeddings, id) /\ embeddings[id].bytes % 4 = 0
    /\ run.merged
    /\ Range(run.all_memories) = MemoriesOf({run.project})

\* The blob that is a byte too long, on a seed of the semantic phase
C9_RaggedWitness ==
    /\ C9_Case
    /\ \E id \in MemoriesOf({run.project}) :
          HasBlob(embeddings, id) /\ embeddings[id].bytes % 4 # 0
    /\ ~run.merged

\* The case of C10: pre_prompt_submit ran for a project that has a memory,
\* its own or global, and the query matched none
C10_Case ==
    /\ run.hook = "pre_prompt_submit"
    /\ MemoriesOf({run.project, Global}) # {}
    /\ run.matched = <<>>

\* C10: in that case the context load_full_context returns and the output
\* hold at least one memory, whatever rows of project_context,
\* active_context and sessions the project has.
C10_ContextHasMemory ==
    C10_Case => /\ ~run.context.none
                /\ Len(run.context.relevantMemories) >= 1
                /\ Len(run.shown) >= 1

\* The project that has a memory and no row of the three tables
C10_NewProjectWitness ==
    /\ C10_Case
    /\ RowOf(projectContext, run.project) = NoRow
    /\ RowOf(activeContext, run.project) = NoRow
    /\ \A i \in 1..Len(sessions) : sessions[i].project # run.project
    /\ run.printed = "new"

\* The blob of the memory does not unpack: its length is not a whole number
\* of 4-byte floats
Ragged(id) == HasBlob(embeddings, id) /\ embeddings[id].bytes % 4 # 0

\* C18: session_start, run on a store whose JSON fields parse, runs all its
\* phases and prints the context of the session, whatever blobs the table
\* of embeddings holds (none, empty, of another dimension, of a length that
\* is not a multiple of 4).
C18_BadEmbeddingSkipped ==
    (/\ run.hook = "session_start"
     /\ dbExists
     /\ ~Malformed(RowOf(projectContext, run.project), "tech_stack"))
        => run.merged /\ run.printed = "session-context"

\* A memory of the project has a blob a byte too long: session_start stopped
\* in the semantic phase and printed nothing
C18_RaggedWitness ==
    /\ run.hook = "session_start"
    /\ \E id \in MemoriesOf({run.project}) : Ragged(id)
    /\ ~Malformed(RowOf(projectContext, run.project), "tech_stack")
    /\ ~run.merged
    /\ run.printed = "nothing"

\* A memory of the project has a blob one float short, none a ragged one:
\* the phases ran and the context was printed
C18_WrongDimensionWitness ==
    /\ run.hook = "session_start"
    /\ \E id \in MemoriesOf({run.project}) :
          HasBlob(embeddings, id) /\ ~Ragged(id) /\ ~Usable(id)
    /\ \A id \in MemoriesOf({run.project}) : ~Ragged(id)
    /\ run.merged
    /\ run.printed = "session-context"

\* The case of C19: a retrieval hook ran for a project whose row of
\* project_context has a tech_stack that is not JSON
C19_Case ==
    /\ run.hook \in {"session_start", "pre_prompt_submit"}
    /\ dbExists
    /\ Malformed(RowOf(projectContext, run.project), "tech_stack")

\* C19: in that case session_start, its phases done, prints the context
\* with the memories it merged, and pre_prompt_submit returns the context of
\* the project with the memories the query matched, as they do for a row
\* with no tech_stack.
C19_MalformedFieldAbsent ==
    C19_Case =>
        /\ (run.hook = "session_start" /\ run.merged)
              => /\ run.printed = "session-context"
                 /\ run.shown = Take(run.all_memories, SHOWN_CAP)
        /\ run.hook = "pre_prompt_submit"
              => /\ ~run.context.none
                 /\ run.printed = "project-context"
                 /\ run.matched # <<>>
                       => run.context.relevantMemories = run.matched

\* session_start merged memories and printed nothing
C19_SessionStartWitness ==
    /\ C19_Case
    /\ run.hook = "session_start"
    /\ run.merged
    /\ Len(run.all_memories) >= 1
    /\ run.printed = "nothing"

\* pre_prompt_submit: the query matched a memory, the project has a row of
\* project_context, and the output is that of a new project
C19_PrePromptWitness ==
    /\ C19_Case
    /\ run.hook = "pre_prompt_submit"
    /\ run.matched # <<>>
    /\ run.context.none
    /\ run.printed = "new"

-----------------------------------------------------------------------------
(***************************************************************************)
(* Retrieval over a sound store with several memories of one project       *)
(* (SpecRank): every blob unpacks and every JSON field parses; the git log *)
(* is empty or mentions more words than the semantic phase asks for.       *)
(***************************************************************************)
MaxRanked == 2          \* rows of memories, each any of RankRows
MaxBulk == 6            \* rows of memories, all the same

RankRows == <<
    Seed(Project, "fix nav", "decision", 9, Lately),
    Seed(Project, "use riverpod", "error", 7, LongAgo),
    Seed(Project, "login", "learning", 8, LongAgo),
    Seed(Project, "fix nav", "observation", 5, LongAgo) >>

\* The blobs of a sound table embeddings
SoundBlobs == {b \in Blobs : b.bytes = 4 * EMBEDDING_DIM}

\* git log: nothing, or two commits whose messages have six words
RankLogs ==
    {<<>>,
     <<[hash |-> 2, message |-> "fix crash in login flow"],
       [hash |-> 1, message |-> "use riverpod"]>>}

\* The stores: up to MaxRanked rows with any blobs, or MaxBulk copies of one
\* row (more rows than a query may return) with no blob or the same on each
RankStores ==
    {st \in [memories : UNION {[1..n -> Range(RankRows)] : n \in 0..MaxRanked},
             embeddings : UNION {[ids -> SoundBlobs] : ids \in SUBSET (1..MaxRanked)}] :
        DOMAIN st.embeddings \subseteq DOMAIN st.memories}
    \cup
    {[memories |-> [i \in 1..MaxBulk |-> row],
      embeddings |-> [i \in ids |-> blob]] :
        row \in Range(RankRows), ids \in {{}, 1..MaxBulk}, blob \in SoundBlobs}

RankQueries == {"", "login", "fix nav"}

InitRank ==
    /\ settings = NoSettings
    /\ dbExists = TRUE
    /\ \E st \in RankStores : memories = st.memories /\ embeddings = st.embeddings
    /\ projectContext = [p \in Projects |->
                            IF p = Project THEN [tech_stack |-> "object"] ELSE NoRow]
    /\ activeContext = [p \in Projects |-> NoRow]
    /\ sessions = <<>>
    /\ gitLog \in RankLogs
    /\ ledger = [p \in Projects |-> <<>>]
    /\ nextCommit = Len(gitLog) + 1
    /\ now = Today
    /\ invocations = 0
    /\ turn = [i \in Procs |-> NoTurn]
    /\ run = [hook |-> "none"]

\* The hooks run in the directory of the project that has the memories
NextRank ==
    \/ SessionStartMain(AppDir)
    \/ \E user_query \in RankQueries : PrePromptMain(AppDir, user_query)

SpecRank == InitRank /\ [][NextRank]_vars

\* The ids of the memories an invocation returned, in their order
Retrieved(r) ==
    IF r.hook = "session_start" THEN r.all_memories
    ELSE [i \in 1..Len(r.context.relevantMemories) |->
            r.context.relevantMemories[i].id]

\* Two invocations of one retrieval hook for the same project and, at turn
\* time, the same query
SameRetrieval(r1, r2) ==
    /\ r1.hook \in {"session_start", "pre_prompt_submit"}
    /\ r2.hook = r1.hook
    /\ r2.project = r1.project
    /\ r1.hook = "pre_prompt_submit" => r2.query = r1.query

\* C11: an invocation of a retrieval hook that follows one of the same hook
\* for the same project and query, the store and the git log being what
\* they were, returns the same memory ids in the same order.
C11_Deterministic ==
    [][SameRetrieval(run, run') => Retrieved(run') = Retrieved(run)]_vars

\* session_start returned a list for a git log of more than 5 keywords,
\* a memory of the project matching only one of them
C11_TruncationWitness ==
    /\ run.hook = "session_start"
    /\ run.merged
    /\ Cardinality(extract_git_keywords(gitLog)) > 5
    /\ \E id \in MemoriesOf({run.project}) :
          Cardinality(WordsOf(memories[id].text)
                        \cap extract_git_keywords(gitLog)) = 1
    /\ Len(run.all_memories) >= 2

\* No element occurs twice in s
Distinct(s) == \A i, j \in 1..Len(s) : i # j => s[i] # s[j]

\* The index of the first occurrence of x in s
FirstAt(s, x) == CHOOSE i \in 1..Len(s) : s[i] = x /\ \A j \in 1..(i - 1) : s[j] # x

\* s is cat with the later duplicates dropped, cut to cap elements
MergeOf(s, cat, cap) ==
    /\ Distinct(s)
    /\ Len(s) <= cap
    /\ Range(s) \subseteq Range(cat)
    /\ \A i, j \in 1..Len(s) : i < j => FirstAt(cat, s[i]) < FirstAt(cat, s[j])
    /\ \A x \in Range(cat) \ Range(s) :
          /\ Len(s) = cap
          /\ \A i \in 1..Len(s) : FirstAt(cat, s[i]) < FirstAt(cat, x)

\* What the five phases of session_start returned, one after the other
PhaseConcat(r) ==
    r.phases[1] \o r.phases[2] \o r.phases[3] \o r.phases[4] \o r.phases[5]

\* C12: the list session_start merges is the outputs of its phases in phase
\* order with the later duplicates dropped, of distinct ids and at most 12
\* long; the list pre_prompt_submit retrieves has distinct ids, the rows of
\* the full-text query before those of the LIKE queries, and is at most 5
\* long.
C12_MergedList ==
    /\ (run.hook = "session_start" /\ run.merged)
          => MergeOf(run.all_memories, PhaseConcat(run), MERGED_CAP)
    /\ run.hook = "pre_prompt_submit"
          => /\ Distinct(Retrieved(run))
             /\ Len(Retrieved(run)) <= RELEVANT_LIMIT
             /\ Distinct([i \in 1..Len(run.matched) |-> run.matched[i].id])
             /\ Len(run.matched) <= RELEVANT_LIMIT
             /\ \A i, j \in 1..Len(run.matched) :
                   (run.matched[i].match_type = "keyword"
                      /\ run.matched[j].match_type = "fts") => j < i

\* session_start merged phases that overlap: three or more phases returned
\* a memory, some memory more than once, and the list has several ids
C12_Witness ==
    /\ run.hook = "session_start"
    /\ run.merged
    /\ Cardinality({k \in 1..5 : run.phases[k] # <<>>}) >= 3
    /\ Len(PhaseConcat(run)) > Len(run.all_memories)
    /\ Len(run.all_memories) >= 3

\* pre_prompt_submit with a query that more than 5 memories match
C12_TurnWitness ==
    /\ run.hook = "pre_prompt_submit"
    /\ Cardinality({id \in MemoriesOf({run.project, Global}) :
                      WordsOf(memories[id].text) \cap Range(run.keywords) # {}})
          > RELEVANT_LIMIT
    /\ Len(run.matched) = RELEVANT_LIMIT

\* The quota of the k-th phase of session_start
QuotaOf(k) ==
    <<SLOT_CONFIG.semantic, SLOT_CONFIG.git_related, SLOT_CONFIG.recent,
      SLOT_CONFIG.important, SLOT_CONFIG.fallback>>[k]

\* The memories the WHERE clause of the k-th phase admits (k >= 2), the
\* invocation being r
EligibleFor(k, r) ==
    {id \in MemoriesOf({r.project}) :
        CASE k = 2 -> WordsOf(memories[id].text) \cap r.keywords # {}
          [] k = 3 -> memories[id].created_at > now - RECENT_DAYS * 24
          [] k = 4 -> \/ memories[id].memory_type \in {"decision", "error"}
                      \/ memories[id].importance >= 8
          [] k = 5 -> TRUE}

\* The memories the phases before the k-th returned
ReturnedBefore(k, r) == UNION {Range(r.phases[j]) : j \in 1..(k - 1)}

\* The k-th phase has its quota of eligible memories not yet returned, and
\* returned fewer new ones than its quota
Starved(k, r) ==
    /\ Cardinality(EligibleFor(k, r) \ ReturnedBefore(k, r)) >= QuotaOf(k)
    /\ Cardinality(Range(r.phases[k]) \ ReturnedBefore(k, r)) < QuotaOf(k)

\* C13: every phase of session_start after the first that has at least its
\* quota q of eligible memories no earlier phase returned contributes q
\* memories no earlier phase returned.
C13_QuotaAfterDedup ==
    (run.hook = "session_start" /\ run.merged)
        => \A k \in 2..5 : ~Starved(k, run)

\* The important phase returns a memory the recent phase returned already,
\* and a memory eligible for it is in no phase's output
C13_Witness ==
    /\ run.hook = "session_start"
    /\ run.merged
    /\ Starved(4, run)
    /\ Range(run.phases[4]) \cap Range(run.phases[3]) # {}
    /\ EligibleFor(4, run) \ Range(run.all_memories) # {}

-----------------------------------------------------------------------------
(***************************************************************************)
(* The four hooks from their entry points, the environment of the process  *)
(* given (SpecSwitch).  MCP_HOOKS_DISABLED is the value of the environment *)
(* variable of that name, "" when it is not set.                           *)
(***************************************************************************)
MaxEntries == 3         \* invocations of the capturing hooks

Switches == {"true", ""}

\* "return" at the top of main: nothing read, nothing written, nothing
\* printed
Returned(entry, MCP_HOOKS_DISABLED) ==
    /\ run' = [hook |-> "returned", entry |-> entry,
               env |-> MCP_HOOKS_DISABLED, printed |-> "nothing"]
    /\ UNCHANGED <<storeVars, ledger, gitLog, nextCommit, now, settings>>

\* session_end.main from os.environ on
SessionEndEntry(MCP_HOOKS_DISABLED, uncommitted_files) ==
    IF MCP_HOOKS_DISABLED = "true"
    THEN /\ Returned("session_end", MCP_HOOKS_DISABLED)
         /\ invocations' = invocations + 1
         /\ UNCHANGED turn
    ELSE SessionEndMain(uncommitted_files)

\* post_prompt_submit.main from os.environ on, in the process i
PostPromptEntry(MCP_HOOKS_DISABLED, i) ==
    IF MCP_HOOKS_DISABLED = "true"
    THEN /\ turn[i].pc = "ready"
         /\ Returned("post_prompt_submit", MCP_HOOKS_DISABLED)
         /\ Exited(i, turn[i].project, turn[i].content, [type |-> "NotRun"], 0, 0)
         /\ UNCHANGED invocations
    ELSE PostPromptMain(i)

\* pre_prompt_submit.main from os.environ on
PrePromptEntry(MCP_HOOKS_DISABLED, cwd, user_query) ==
    IF MCP_HOOKS_DISABLED = "true"
    THEN /\ Returned("pre_prompt_submit", MCP_HOOKS_DISABLED)
         /\ UNCHANGED <<invocations, turn>>
    ELSE PrePromptMain(cwd, user_query)

\* session_start.main: it does not read the environment variable.  The run
\* keeps the value for the properties.
SessionStartEntry(MCP_HOOKS_DISABLED, cwd) ==
    LET project == get_project_from_cwd(cwd)
        git_keywords == extract_git_keywords(gitLog)
    IN /\ \E kw10 \in FirstOf(git_keywords, 10) :
          \E kw5 \in FirstOf(kw10, 5) :
             run' = [env |-> MCP_HOOKS_DISABLED]
                       @@ SessionStartRun(project, kw5, kw10)
       /\ UNCHANGED <<storeVars, ledger, gitLog, nextCommit, now, invocations, turn, settings>>

\* The store of a project in use: memories, a row of project_context and of
\* active_context, or no store yet; a commit the ledger does not hold
InitSwitch ==
    /\ settings = NoSettings
    /\ dbExists \in BOOLEAN
    /\ \E n \in 0..2 : memories = IF dbExists THEN Take(RankRows, n) ELSE <<>>
    /\ embeddings = <<>>
    /\ projectContext = [p \in Projects |->
                            IF dbExists /\ p = Project
                            THEN [tech_stack |-> "object"] ELSE NoRow]
    /\ \E active \in {NoRow, StaleRow} :
          activeContext = [p \in Projects |->
                             IF dbExists /\ p = Project THEN active ELSE NoRow]
    /\ sessions = <<>>
    /\ \E msg \in CommitMessages : gitLog = <<[hash |-> 1, message |-> msg]>>
    /\ ledger = [p \in Projects |-> <<>>]
    /\ nextCommit = 2
    /\ now = Today
    /\ invocations = 0
    /\ turn = [i \in Procs |-> NoTurn]
    /\ run = [hook |-> "none"]

NextSwitch ==
    \/ \E env \in Switches, cwd \in Dirs : SessionStartEntry(env, cwd)
    \/ \E env \in Switches, user_query \in Queries :
          PrePromptEntry(env, AppDir, user_query)
    \/ \E env \in Switches, files \in {<<>>, <<"a.py">>} :
          /\ invocations < MaxEntries
          /\ SessionEndEntry(env, files)
    \/ \E i \in Procs :
          /\ invocations < MaxEntries
          /\ Fire(i, Project, <<"ok">>)
    \/ \E env \in Switches, i \in Procs : PostPromptEntry(env, i)

SpecSwitch == InitSwitch /\ [][NextSwitch]_vars

\* The step is an invocation of a hook in a process whose environment has
\* MCP_HOOKS_DISABLED=true
DisabledStep ==
    \/ \E cwd \in Dirs : SessionStartEntry("true", cwd)
    \/ \E user_query \in Queries : PrePromptEntry("true", AppDir, user_query)
    \/ \E files \in {<<>>, <<"a.py">>} : SessionEndEntry("true", files)
    \/ \E i \in Procs : PostPromptEntry("true", i)

\* C14: an invocation of any of the four hooks with the switch set writes
\* nothing to the store and the ledger and prints nothing.
C14_DisabledIsSilent ==
    [][DisabledStep => /\ UNCHANGED <<storeVars, ledger>>
                       /\ run'.printed = "nothing"]_vars

\* session_start printed the context of the project, the switch being set
C14_Witness ==
    /\ run.hook = "session_start"
    /\ run.env = "true"
    /\ run.printed = "session-context"
    /\ Len(run.shown) >= 1

\* The hooks that read the switch, invoked with it set
C14_ReturnedWitness ==
    /\ run.hook = "returned"
    /\ run.entry = "session_end"
    /\ run.env = "true"
    /\ ledger[Project] = <<>>

-----------------------------------------------------------------------------
(***************************************************************************)
(* Both capture paths on one store (SpecCapture): session_end over commits *)
(* of every type and post_prompt_submit over turns of every outcome, each  *)
(* invocation from its first statement to its exit.                        *)
(***************************************************************************)
\* The turns: a decision, a marked text long enough for the patterns of
\* "important", a marked text too short for them, a text of no type, a turn
\* marked #skip
CaptureTexts ==
    {<<"decided", " ", Fill42>>, <<"#remember", " ", Fill42>>,
     <<"#remember", " ", Fill15>>, <<Fill42>>, <<"#skip", " ", Fill42>>}

CaptureMessages == TypedMessages

\* post_prompt_submit.main, one whole invocation with no other process
\* between its statements
PostPromptRun(project, content) ==
    LET override == check_user_override(content)
        ran == content # <<>> /\ ~override.force_skip
        detected == IF ran THEN detect_memory_type(content)
                    ELSE [type |-> "NotRun"]
        detection == IF override.force_remember /\ detected.type = "None"
                     THEN Forced ELSE detected
        content_hash == compute_content_hash(content)
        inserted == /\ ran
                    /\ detection.type # "None"
                    /\ dbExists
                    /\ ~is_duplicate(memories, project, content_hash, now)
        row == MemoryRow(project, content_hash, content, detection.type,
                         Importance(detection), now, 0)
    IN /\ memories' = IF inserted THEN Append(memories, row) ELSE memories
       /\ activeContext' =
             IF ran /\ dbExists
             THEN update_active_context(activeContext, project, detection,
                                        Preview(content), now)
             ELSE activeContext
       /\ run' = [hook |-> "post_prompt_submit", project |-> project,
                  content |-> content, detected |-> detected.type,
                  detection |-> detection.type, inserted |-> inserted]
       /\ invocations' = invocations + 1
       /\ UNCHANGED <<dbExists, sessions, projectContext, embeddings, ledger,
                       gitLog, nextCommit, now, turn, settings>>

InitCapture ==
    /\ settings = NoSettings
    /\ dbExists = TRUE
    /\ memories = <<>>
    /\ sessions = <<>>
    /\ activeContext = [p \in Projects |-> NoRow]
    /\ projectContext = [p \in Projects |-> NoRow]
    /\ embeddings = <<>>
    /\ ledger = [p \in Projects |-> <<>>]
    /\ gitLog = <<>>
    /\ nextCommit = 1
    /\ now = 0
    /\ invocations = 0
    /\ turn = [i \in Procs |-> NoTurn]
    /\ run = [hook |-> "none"]

NextCapture ==
    \/ \E msg \in CaptureMessages :
          /\ nextCommit <= MaxNewCommits
          /\ GitCommit(msg)
    \/ /\ invocations < MaxRuns
       /\ SessionEndMain(<<"a.py">>)
    \/ \E content \in CaptureTexts :
          /\ invocations < MaxRuns
          /\ PostPromptRun(Project, content)

SpecCapture == InitCapture /\ [][NextCapture]_vars

\* The rows the conversation path wrote, and those the commit path wrote
ConversationRows == {id \in 1..Len(memories) : memories[id].commit = 0}
CommitRows == {id \in 1..Len(memories) : memories[id].commit # 0}

TypeOf(content) ==
    LET detected == detect_memory_type(content)
    IN IF check_user_override(content).force_remember /\ detected.type = "None"
       THEN Forced ELSE detected

\* floor(10 * confidence), confidence in hundredths
Tenths(confidence) == confidence \div 10

\* C22: every memory a capture path wrote has an integer importance in
\* 1..10; on the conversation path it is floor(10 * confidence) clamped to
\* 1..10, plus 2 (clamped to 10) for the types decision and error, so that a
\* decision (confidence 0.9) is stored with importance 9 or more.
C22_ImportanceRange ==
    /\ \A id \in 1..Len(memories) : memories[id].importance \in 1..10
    /\ \A id \in ConversationRows :
          LET detection == TypeOf(memories[id].text)
              clamped == Min(10, Max(1, Tenths(detection.confidence)))
          IN /\ memories[id].importance =
                   IF memories[id].memory_type \in {"decision", "error"}
                   THEN Min(10, clamped + 2) ELSE clamped
             /\ memories[id].memory_type = "decision"
                   => detection.confidence = 90 /\ memories[id].importance >= 9
    /\ \A k \in DOMAIN MEMORY_PATTERNS :
          Importance(Detection(MEMORY_PATTERNS[k])) \in 1..10

\* A decision, a memory of another type of the conversation path and a
\* memory of the commit path, stored together
C22_Witness ==
    /\ \E id \in ConversationRows : memories[id].memory_type = "decision"
    /\ \E id \in ConversationRows :
          memories[id].memory_type = "important" /\ memories[id].importance = 7
    /\ \E id \in CommitRows : memories[id].importance = 5

Taxonomy == {"decision", "error", "learning", "implementation", "important",
             "code", "observation"}

\* C24 as stated: every memory a capture path wrote has a memory_type of
\* the taxonomy {decision, error, learning, implementation, important, code,
\* observation}.
C24_FixedTaxonomy ==
    \A id \in ConversationRows \cup CommitRows :
        memories[id].memory_type \in Taxonomy

\* C24, amended: every memory the conversation path wrote has a type of
\* MEMORY_PATTERNS (decision, error, learning, implementation, important,
\* code), and every memory the commit path wrote a type of
\* MEMORY_TYPE_PATTERNS (decision, error, pattern, learning) or observation.
C24_TaxonomyPerPath ==
    /\ \A id \in ConversationRows :
          memories[id].memory_type \in
              {MEMORY_PATTERNS[k].type : k \in DOMAIN MEMORY_PATTERNS}
    /\ \A id \in CommitRows :
          memories[id].memory_type \in Range(CommitTypes) \cup {"observation"}

\* A commit stored with the type "pattern", next to a memory of a turn
C24_Witness ==
    /\ \E id \in CommitRows :
          /\ memories[id].text = "always use riverpod"
          /\ memories[id].memory_type = "pattern"
    /\ ConversationRows # {}

\* The commit message matches no pattern of MEMORY_TYPE_PATTERNS
NoPattern(msg) == \A i \in 1..Len(CommitTypes) : PatternHits(msg)[CommitTypes[i]] = 0

\* The turn carries a remember marker and detect_memory_type gives it no type
ForcedTurn(content) ==
    /\ check_user_override(content).force_remember
    /\ detect_memory_type(content).type = "None"

\* C25 as stated: a memory stored although no pattern matched has the type
\* "observation", on the commit path (a message that matches no pattern) and
\* on the conversation path (a text with a remember marker and no type).
C25_ForcedObservation ==
    /\ \A id \in CommitRows :
          NoPattern(memories[id].text) => memories[id].memory_type = "observation"
    /\ \A id \in ConversationRows :
          ForcedTurn(memories[id].text) => memories[id].memory_type = "observation"

\* C25, amended: a commit message that matches no pattern is stored with
\* the type "observation"; a text with a remember marker that
\* detect_memory_type gives no type is stored with the type "important" and
\* the importance 10.
C25_ForcedDefault ==
    /\ \A id \in CommitRows :
          NoPattern(memories[id].text) => memories[id].memory_type = "observation"
    /\ \A id \in ConversationRows :
          ForcedTurn(memories[id].text)
          => /\ memories[id].memory_type = "important"
             /\ memories[id].importance = 10

\* A commit of no pattern and a marked turn of no type, both stored
C25_Witness ==
    /\ \E id \in CommitRows :
          /\ memories[id].text = "update deps"
          /\ memories[id].memory_type = "observation"
    /\ \E id \in ConversationRows :
          /\ memories[id].text = <<"#remember", " ", Fill15>>
          /\ ForcedTurn(memories[id].text)
          /\ memories[id].memory_type = "important"

\* C28: on the commit path a message in which one pattern of "decision" is
\* found is stored as a decision, however many patterns of the other types
\* are found in it.
C28_DecisionFirst ==
    \A id \in CommitRows :
        PatternHits(memories[id].text).decision >= 1
        => memories[id].memory_type = "decision"

\* A message with one decision pattern and three error patterns, stored as
\* an error
C28_Witness ==
    \E id \in CommitRows :
        /\ memories[id].text = "decide: fix crash bug"
        /\ PatternHits(memories[id].text).decision = 1
        /\ PatternHits(memories[id].text).error = 3
        /\ memories[id].memory_type = "error"

-----------------------------------------------------------------------------
(***************************************************************************)
(* The tags of the memories both capture paths store (SpecTags).           *)
(*                                                                         *)
(* A text is the set of the keywords found in it; a row of memories is the *)
(* text and its column tags, the JSON list as the set of its entries.      *)
(***************************************************************************)
TAGS_CAP == 5           \* list(tags)[:5]
MaxTagged == 1          \* memories stored

\* post_prompt_submit.extract_tags, tech_patterns: the tags, each with the
\* words of the model its pattern finds
tech_patterns ==
    [flutter |-> {"flutter"}, react |-> {"react"}, python |-> {"python"},
     api |-> {"api"}, auth |-> {"login"}, ui |-> {"css"}]

TechWords == UNION {tech_patterns[tag] : tag \in DOMAIN tech_patterns} \cup {"done"}

\* session_end.DOMAIN_TAGS: the domains, each with its keywords of the model
DOMAIN_TAGS ==
    [ui |-> {"screen"}, api |-> {"server"}, state |-> {"riverpod"},
     auth |-> {"login"}]

DomainWords == UNION {DOMAIN_TAGS[d] : d \in DOMAIN DOMAIN_TAGS} \cup {"done"}

\* Path(f).suffix of the files of a commit, and the tag of a suffix
Suffixes == {".dart", ".kt", ".md"}

SuffixTag(ext) ==
    CASE ext = ".dart" -> {"flutter"}
      [] ext = ".kt" -> {"android"}
      [] OTHER -> {}

\* list(tags)[:5] of a set: any five of its elements, all when it has fewer
FirstTags(tags) == FirstOf(tags, TAGS_CAP)

\* post_prompt_submit.extract_tags: the lists it can return
extract_tags(content) ==
    FirstTags({tag \in DOMAIN tech_patterns : tech_patterns[tag] \cap content # {}})

\* session_end.extract_tags
extract_tags_end(text, files) ==
    FirstTags({d \in DOMAIN DOMAIN_TAGS : DOMAIN_TAGS[d] \cap text # {}}
              \cup UNION {SuffixTag(ext) : ext \in files})

\* save_memory: json.dumps(tags + ['auto-captured']) if tags
\* else json.dumps(['auto-captured'])
SaveMemoryTags(content) ==
    \E tags \in extract_tags(content) :
        /\ memories' = Append(memories,
              [path |-> "conversation", text |-> content, extracted |-> tags,
               tags |-> tags \cup {"auto-captured"}])
        /\ run' = [hook |-> "post_prompt_submit"]
        /\ UNCHANGED <<dbExists, sessions, activeContext, projectContext,
                        embeddings, ledger, gitLog, nextCommit, now, invocations,
                        turn, settings>>

\* save_commit_memory: json.dumps(tags) if tags else None
SaveCommitTags(text, files) ==
    \E tags \in extract_tags_end(text, files) :
        /\ memories' = Append(memories,
              [path |-> "commit", text |-> text, files |-> files,
               extracted |-> tags, tags |-> tags])
        /\ run' = [hook |-> "session_end"]
        /\ UNCHANGED <<dbExists, sessions, activeContext, projectContext,
                        embeddings, ledger, gitLog, nextCommit, now, invocations,
                        turn, settings>>

NextTags ==
    \/ \E content \in SUBSET TechWords :
          /\ Len(memories) < MaxTagged
          /\ SaveMemoryTags(content)
    \/ \E text \in SUBSET DomainWords, files \in SUBSET Suffixes :
          /\ Len(memories) < MaxTagged
          /\ SaveCommitTags(text, files)

SpecTags == InitCapture /\ [][NextTags]_vars

\* C26: every stored memory carries at most 5 tags.
C26_AtMostFiveTags ==
    \A id \in 1..Len(memories) : Cardinality(memories[id].tags) <= TAGS_CAP

\* A turn in which six patterns of tech_patterns match: extract_tags returned
\* five tags, the row carries six
C26_Witness ==
    \E id \in 1..Len(memories) :
        /\ memories[id].path = "conversation"
        /\ Cardinality(memories[id].extracted) = TAGS_CAP
        /\ "auto-captured" \in memories[id].tags
        /\ Cardinality(memories[id].tags) = TAGS_CAP + 1

\* A commit with six tags to take from: the row carries five
C26_CommitWitness ==
    \E id \in 1..Len(memories) :
        /\ memories[id].path = "commit"
        /\ Cardinality(memories[id].text) = 4
        /\ memories[id].files = {".dart", ".kt"}
        /\ Cardinality(memories[id].tags) = TAGS_CAP

-----------------------------------------------------------------------------
(***************************************************************************)
(* The four hooks on the store of a workspace in use (SpecHooks): commits  *)
(* and sessions of the project "app", turns of a conversation in           *)
(* "tools/cli", and retrieval for "app".                                   *)
(***************************************************************************)
\* The key of the project in apps/cli
CliProject == "cli"

\* The store before: a memory of each project and a global one, a session
HookRows == <<RankRows[1], SeedRows[3], SeedRows[4],
              Seed(CliProject, "use riverpod", "decision", 9, Lately)>>

\* session_start.main on the cwd of its input; the run keeps the cwd
SessionStartAt(cwd) ==
    LET project == get_project_from_cwd(cwd)
        git_keywords == extract_git_keywords(gitLog)
    IN /\ \E kw10 \in FirstOf(git_keywords, 10) :
          \E kw5 \in FirstOf(kw10, 5) :
             run' = [cwd |-> cwd] @@ SessionStartRun(project, kw5, kw10)
       /\ UNCHANGED <<storeVars, ledger, gitLog, nextCommit, now, invocations, turn, settings>>

HookSession == [project |-> Project, last_work |-> "fix nav",
                current_status |-> <<"Commit", 0>>, commit |-> 0,
                timestamp |-> Lately]

\* The turns: a decision, a text of no type, a turn marked #skip
HookTexts ==
    {<<"decided", " ", Fill42>>, <<Fill42>>, <<"#skip", " ", Fill42>>}

InitHooks ==
    /\ settings = NoSettings
    /\ dbExists = TRUE
    /\ memories = HookRows
    /\ sessions = <<HookSession>>
    /\ activeContext = [p \in Projects |-> NoRow]
    /\ projectContext = [p \in Projects |->
                            IF p = Project THEN [tech_stack |-> "object"] ELSE NoRow]
    /\ embeddings = <<>>
    /\ ledger = [p \in Projects |-> <<>>]
    /\ gitLog = <<>>
    /\ nextCommit = 1
    /\ now = Today
    /\ invocations = 0
    /\ turn = [i \in Procs |-> NoTurn]
    /\ run = [hook |-> "none"]

NextHooks ==
    \/ \E msg \in CommitMessages :
          /\ nextCommit <= MaxNewCommits
          /\ GitCommit(msg)
    \/ /\ invocations < MaxRuns
       /\ SessionEndMain(<<"a.py">>)
    \/ \E content \in HookTexts :
          /\ invocations < MaxRuns
          /\ PostPromptRun(OtherProject, content)
    \/ \E cwd \in Dirs : SessionStartAt(cwd)
    \/ \E user_query \in Queries : PrePromptMain(AppDir, user_query)

SpecHooks == InitHooks /\ [][NextHooks]_vars

\* before is a prefix of after: every row of before is in after, at its
\* place and with its values
Kept(before, after) ==
    /\ Len(after) >= Len(before)
    /\ SubSeq(after, 1, Len(before)) = before

RetrievalHooks == {"session_start", "pre_prompt_submit"}

\* C23: no invocation of a hook updates or deletes a Memory row or a Session
\* row: every step keeps the rows of both tables, with their values, and
\* only appends; a step of a retrieval hook (pre_prompt_submit,
\* session_start) leaves the whole store and the ledger as they were.
C23_RowsOnlyAdded ==
    [][/\ Kept(memories, memories')
       /\ Kept(sessions, sessions')
       /\ run'.hook \in RetrievalHooks => UNCHANGED <<storeVars, ledger>>]_vars

\* Both capture paths have appended to the rows of the store before, and a
\* retrieval hook has run on them
C23_Witness ==
    /\ Len(memories) >= Len(HookRows) + 2
    /\ \E id \in CommitRows : id > Len(HookRows)
    /\ \E id \in ConversationRows : memories[id].tag[1] = "md5"
    /\ Len(sessions) >= 2
    /\ run.hook \in RetrievalHooks
    /\ run.printed # "nothing"

\* The memories a retrieval returned
ReturnedRows ==
    IF run.hook = "session_start" /\ run.merged THEN Range(run.all_memories)
    ELSE IF run.hook = "pre_prompt_submit" /\ ~run.context.none
         THEN {m.id : m \in Range(run.context.relevantMemories)}
         ELSE {}

\* The project of the directory the retrieval ran in, as the capture hooks
\* name it
RetrievalProject ==
    IF run.hook = "session_start" THEN get_current_project(run.cwd)
    ELSE run.project

\* C29: a retrieval for a project returns only memories of that project or
\* of the global scope; a capture for a project appends only rows of that
\* project; a turn is not stored as a duplicate only when a memory of its
\* own project holds its hash.
C29_ProjectIsolation ==
    /\ run.hook \in RetrievalHooks =>
          \A id \in ReturnedRows :
              memories[id].project \in {RetrievalProject, Global}
    /\ \A id \in (Len(HookRows) + 1)..Len(memories) :
          memories[id].project =
              IF memories[id].commit = 0 THEN OtherProject ELSE Project
    /\ (/\ run.hook = "post_prompt_submit"
        /\ run.detection \notin {"None", "NotRun"}
        /\ ~run.inserted)
       => \E id \in 1..Len(memories) :
             /\ memories[id].project = run.project
             /\ memories[id].tag = compute_content_hash(run.content)

\* session_start in tools/cli returned the memory of the project in apps/cli
C29_Witness ==
    /\ run.hook = "session_start"
    /\ run.cwd = ToolDir
    /\ get_current_project(run.cwd) = OtherProject
    /\ \E id \in ReturnedRows : memories[id].project = CliProject
    /\ \E id \in 1..Len(memories) : memories[id].project = OtherProject

-----------------------------------------------------------------------------
(***************************************************************************)
(* session_end.py as concurrent processes of one project (SpecRace).       *)
(*                                                                         *)
(* turn[j] is the process j: pc "loop" (saved_commits loaded, new_commits  *)
(* computed, the loop of main over them running), "idle" (exited).  Each   *)
(* turn of the loop is one step; the statements of other processes come    *)
(* between the turns and between get_new_commits and the loop.             *)
(***************************************************************************)
\* main up to the loop: no uncommitted change, load_saved_commits,
\* get_new_commits
EndLoad(j) ==
    /\ turn[j].pc = "idle"
    /\ LET saved_commits == ledger
           new_commits == get_new_commits(gitLog, saved_commits)
       IN turn' = [turn EXCEPT ![j] =
                      [pc |-> "loop", n |-> invocations + 1,
                       observed |-> Hashes(new_commits),
                       new_commits |-> new_commits]]
    /\ invocations' = invocations + 1
    /\ UNCHANGED <<storeVars, ledger, gitLog, nextCommit, now, run, settings>>

\* One turn of the loop: should_skip_commit, save_commit_session,
\* save_commit_memory, save_commit_hash on the ledger as it is now
EndLoop(j) ==
    /\ turn[j].pc = "loop"
    /\ turn[j].new_commits # <<>>
    /\ LET commit == Head(turn[j].new_commits)
           w == CaptureCommit([st |-> Store, saved |-> ledger], Project,
                              commit, now)
       IN /\ memories' = w.st.memories
          /\ sessions' = w.st.sessions
          /\ activeContext' = w.st.active
          /\ ledger' = w.saved
          /\ run' = [hook |-> "session_end", process |-> j,
                     commit |-> commit.hash]
    /\ turn' = [turn EXCEPT ![j].new_commits = Tail(@)]
    /\ UNCHANGED <<dbExists, projectContext, embeddings, gitLog, nextCommit,
                   now, invocations, settings>>

\* The loop is over: main prints its result and returns
EndExit(j) ==
    /\ turn[j].pc = "loop"
    /\ turn[j].new_commits = <<>>
    /\ turn' = [turn EXCEPT ![j].pc = "idle"]
    /\ UNCHANGED <<storeVars, ledger, gitLog, nextCommit, now, invocations, run, settings>>

NextRace ==
    \/ \E msg \in CommitMessages :
          /\ nextCommit <= MaxNewCommits
          /\ GitCommit(msg)
    \/ \E j \in Procs :
          /\ invocations < MaxRuns
          /\ EndLoad(j)
    \/ \E j \in Procs : EndLoop(j)
    \/ \E j \in Procs : EndExit(j)

SpecRace == InitCapture /\ [][NextRace]_vars

\* The Session rows of a commit of the project
SessionsOf(hash) ==
    {i \in 1..Len(sessions) :
        sessions[i].project = Project /\ sessions[i].commit = hash}

\* C30: when two invocations of session_end for one project run at the same
\* time and both get the same commit from get_new_commits, at most one
\* Session row is written for that commit.
C30_OneSessionPerCommit ==
    \A hash \in 1..(nextCommit - 1) : Cardinality(SessionsOf(hash)) <= 1

\* Both processes got the commit from get_new_commits before either marked
\* it, and each wrote a Session row for it; the ledger holds it
C30_Witness ==
    \E hash \in 1..(nextCommit - 1) :
        /\ \A j \in Procs :
              /\ turn[j].n > 0
              /\ hash \in Range(turn[j].observed)
              /\ turn[j].pc = "idle"
        /\ Cardinality(SessionsOf(hash)) = 2
        /\ hash \in Range(ledger[Project])

-----------------------------------------------------------------------------
(***************************************************************************)
(* The ledger under arbitrary calls of save_commit_hash (SpecLedger).      *)
(*                                                                         *)
(* run.calls is every identifier save_commit_hash was called with, in      *)
(* order; run.inserted is those it appended (absent at the time of the     *)
(* call).                                                                  *)
(***************************************************************************)
MaxMarks == 8           \* calls of save_commit_hash while the model runs

\* The ledger after Marked distinct commits were marked one after the other
Marked == LEDGER_CAP - 2

MarkSeen(commit_hash) ==
    /\ ledger' = save_commit_hash(ledger, Project, commit_hash)
    /\ run' = [hook |-> "save_commit_hash",
               calls |-> Append(run.calls, commit_hash),
               inserted |-> IF commit_hash \in Range(ledger[Project])
                            THEN run.inserted
                            ELSE Append(run.inserted, commit_hash)]
    /\ nextCommit' = IF commit_hash = nextCommit THEN nextCommit + 1 ELSE nextCommit
    /\ invocations' = invocations + 1
    /\ UNCHANGED <<storeVars, gitLog, now, turn, settings>>

InitLedger ==
    /\ settings = NoSettings
    /\ dbExists = TRUE
    /\ memories = <<>>
    /\ sessions = <<>>
    /\ activeContext = [p \in Projects |-> NoRow]
    /\ projectContext = [p \in Projects |-> NoRow]
    /\ embeddings = <<>>
    /\ turn = [i \in Procs |-> NoTurn]
    /\ gitLog = <<>>
    /\ now = 0
    /\ invocations = 0
    /\ \E k \in {0, Marked} :
          /\ ledger = [p \in Projects |-> IF p = Project THEN Upto(1, k) ELSE <<1>>]
          /\ nextCommit = k + 1
          /\ run = [hook |-> "save_commit_hash", calls |-> Upto(1, k),
                    inserted |-> Upto(1, k)]

\* A call marks a new commit, the first commit ever marked, or the oldest
\* one the ledger still holds.
NextLedger ==
    /\ invocations < MaxMarks
    /\ \/ MarkSeen(nextCommit)
       \/ MarkSeen(1)
       \/ /\ ledger[Project] # <<>>
          /\ MarkSeen(ledger[Project][1])

SpecLedger == InitLedger /\ [][NextLedger]_vars

\* The n distinct identifiers most recently passed to a call
RECURSIVE RecentDistinct(_, _, _)
RecentDistinct(calls, n, acc) ==
    IF calls = <<>> \/ Cardinality(acc) = n THEN acc
    ELSE RecentDistinct(SubSeq(calls, 1, Len(calls) - 1), n,
                        acc \cup {calls[Len(calls)]})

\* C5 as stated: the ledger holds at most 100 identifiers, exactly the most
\* recently marked distinct ones.
C5_LedgerIsMostRecentlyMarked ==
    /\ Len(ledger[Project]) <= LEDGER_CAP
    /\ Range(ledger[Project]) = RecentDistinct(run.calls, LEDGER_CAP, {})

\* C5, amended: the ledger holds at most 100 identifiers, exactly the 100 most
\* recently inserted ones, oldest insertion first; a call for an identifier
\* the ledger holds inserts nothing and does not renew its position.  When
\* the calls are for distinct commits these are the commits last marked.
C5_LedgerIsMostRecentlyInserted ==
    /\ Len(ledger[Project]) <= LEDGER_CAP
    /\ ledger[Project] = LastN(run.inserted, LEDGER_CAP)
    /\ Len(run.calls) = Cardinality(Range(run.calls))
          => Range(ledger[Project]) = RecentDistinct(run.calls, LEDGER_CAP, {})

\* 105 distinct commits marked, some of them more than once, and exactly the
\* last 100 inserted are in the ledger
C5_Witness ==
    /\ Cardinality(Range(run.calls)) = LEDGER_CAP + 5
    /\ Len(run.calls) > LEDGER_CAP + 5
    /\ Len(ledger[Project]) = LEDGER_CAP

-----------------------------------------------------------------------------
(***************************************************************************)
(* save_commit_hash in concurrent processes (SpecMarks).                   *)
(*                                                                         *)
(* turn[j] is the process j: pc "mark" (load_saved_commits returned, the   *)
(* file not yet written), "idle".  The file is read whole and written      *)
(* whole; the statements of other processes come between the two.          *)
(***************************************************************************)
MaxRaceMarks == 3       \* calls of save_commit_hash

\* save_commit_hash up to its write: saved = load_saved_commits()
MarkLoad(j, project) ==
    /\ turn[j].pc = "idle"
    /\ turn' = [turn EXCEPT ![j] =
                   [pc |-> "mark", n |-> invocations + 1, project |-> project,
                    commit_hash |-> nextCommit, saved |-> ledger]]
    /\ nextCommit' = nextCommit + 1
    /\ invocations' = invocations + 1
    /\ UNCHANGED <<storeVars, ledger, gitLog, now, run, settings>>

\* save_commit_hash from "if project not in saved" on: the list of the
\* project in the copy that was loaded, and json.dump of the copy
MarkWrite(j) ==
    /\ turn[j].pc = "mark"
    /\ ledger' = save_commit_hash(turn[j].saved, turn[j].project,
                                  turn[j].commit_hash)
    /\ run' = [hook |-> "save_commit_hash",
               completed |-> run.completed
                               \cup {<<turn[j].project, turn[j].commit_hash>>}]
    /\ turn' = [turn EXCEPT ![j] = [pc |-> "idle", n |-> turn[j].n]]
    /\ UNCHANGED <<storeVars, gitLog, nextCommit, now, invocations, settings>>

InitMarks ==
    /\ settings = NoSettings
    /\ dbExists = TRUE
    /\ memories = <<>>
    /\ sessions = <<>>
    /\ activeContext = [p \in Projects |-> NoRow]
    /\ projectContext = [p \in Projects |-> NoRow]
    /\ embeddings = <<>>
    /\ turn = [i \in Procs |-> NoTurn]
    /\ gitLog = <<>>
    /\ now = 0
    /\ invocations = 0
    /\ ledger = [p \in Projects |-> <<>>]
    /\ nextCommit = 1
    /\ run = [hook |-> "save_commit_hash", completed |-> {}]

NextMarks ==
    \/ \E j \in Procs, project \in Projects :
          /\ invocations < MaxRaceMarks
          /\ MarkLoad(j, project)
    \/ \E j \in Procs : MarkWrite(j)

SpecMarks == InitMarks /\ [][NextMarks]_vars

\* C31: when the calls of save_commit_hash have completed, every identifier
\* a call marked is in the ledger file, for the same project and for
\* different projects.
C31_NoMarkLost ==
    AllIdle => \A mark \in run.completed : mark[2] \in Range(ledger[mark[1]])

\* Two calls that ran at the same time have completed and the ledger holds
\* the identifier of one of them only
C31_Witness ==
    /\ AllIdle
    /\ \E a, b \in run.completed :
          /\ a # b
          /\ a[2] \in Range(ledger[a[1]])
          /\ b[2] \notin Range(ledger[b[1]])
    /\ Cardinality(run.completed) = 2

\* The same with the two calls for different projects
C31_OtherProjectWitness ==
    /\ AllIdle
    /\ \E a, b \in run.completed :
          /\ a[1] # b[1]
          /\ a[2] \in Range(ledger[a[1]])
          /\ b[2] \notin Range(ledger[b[1]])

-----------------------------------------------------------------------------
(***************************************************************************)
(* save_commit_session statement by statement (SpecTxn).                   *)
(*                                                                         *)
(* A connection is the store as committed and the store as the open        *)
(* transaction of the connection sees it.  sqlite3 opens the transaction   *)
(* before the first INSERT; conn.commit() makes it the store; a connection *)
(* that goes away without commit (the except branch, the end of the        *)
(* process) leaves the store as committed.                                 *)
(***************************************************************************)
\* Where save_commit_session raises: nowhere, in the INSERT INTO sessions,
\* in the INSERT OR REPLACE INTO active_context, in conn.commit()
FailPoints == {"none", "insert", "upsert", "commit"}

sqlite3_connect(st) == [committed |-> st, work |-> st]

\* cursor.execute with every statement committed as it is executed
execute_autocommit(conn, work) == [committed |-> work, work |-> work]

\* cursor.execute of an INSERT: the change is in the open transaction
execute(conn, work) == [committed |-> conn.committed, work |-> work]

conn_commit(conn) == conn.work

conn_rollback(conn) == conn.committed

\* save_commit_session on a store that exists, raising at fails
save_commit_session_at(st, project, commit, files, t, fails) ==
    LET conn == sqlite3_connect(st)
        inserted == execute(conn,
            [conn.work EXCEPT !.sessions = Append(@,
                [project |-> project, last_work |-> commit.message,
                 current_status |-> <<"Commit", ShortHash(commit.hash)>>,
                 commit |-> commit.hash, timestamp |-> t])])
        upserted == execute(inserted,
            [inserted.work EXCEPT
                !.active[project] = ActiveRow(commit.message, files, t),
                !.upserts = @ + 1])
    IN CASE fails = "insert" -> conn_rollback(conn)
         [] fails = "upsert" -> conn_rollback(inserted)
         [] fails = "commit" -> conn_rollback(upserted)
         [] fails = "none" -> conn_commit(upserted)

\* One call of save_commit_session for the newest commit
SaveCommitSession(fails) ==
    /\ gitLog # <<>>
    /\ LET commit == Head(gitLog)
           st == save_commit_session_at(Store, Project, commit,
                                        CommitFiles(commit), now, fails)
       IN /\ sessions' = st.sessions
          /\ activeContext' = st.active
          /\ run' = [hook |-> "save_commit_session", commit |-> commit,
                     fails |-> fails]
    /\ invocations' = invocations + 1
    /\ UNCHANGED <<dbExists, memories, projectContext, embeddings, ledger,
                   gitLog, nextCommit, now, turn, settings>>

NextTxn ==
    \/ \E msg \in CommitMessages :
          /\ nextCommit <= MaxNewCommits + 1
          /\ GitCommit(msg)
    \/ \E fails \in FailPoints :
          /\ invocations < MaxRuns
          /\ SaveCommitSession(fails)

SpecTxn == InitCapture /\ [][NextTxn]_vars

\* The step is a call of save_commit_session
SaveStep == invocations' = invocations + 1 /\ run'.hook = "save_commit_session"

\* C32: after save_commit_session returned or failed, the store holds the
\* new Session row and the ActiveContext of the commit, or neither of the
\* two changes.
C32_SessionAndContextTogether ==
    [][SaveStep =>
         LET commit == run'.commit
         IN \/ /\ Len(sessions') = Len(sessions) + 1
               /\ sessions'[Len(sessions')].commit = commit.hash
               /\ Kept(sessions, sessions')
               /\ activeContext'[Project] =
                     ActiveRow(commit.message, CommitFiles(commit), now)
            \/ /\ Len(sessions') = Len(sessions)
               /\ UNCHANGED <<sessions, activeContext>>]_vars

\* A call that failed in the upsert, after its INSERT INTO sessions, on a
\* store that holds the session and the context of an earlier commit: both
\* are still those of the earlier commit
C32_Witness ==
    /\ run.hook = "save_commit_session"
    /\ run.fails = "upsert"
    /\ Len(sessions) = 1
    /\ sessions[1].commit # run.commit.hash
    /\ activeContext[Project].current_state = sessions[1].last_work
    /\ activeContext[Project].recent_files = <<sessions[1].commit>>

\* A call that committed
C32_CommittedWitness ==
    /\ run.hook = "save_commit_session"
    /\ run.fails = "none"
    /\ Len(sessions) = 2
    /\ sessions[2].commit = run.commit.hash
    /\ activeContext[Project].recent_files = <<run.commit.hash>>

-----------------------------------------------------------------------------
(***************************************************************************)
(* The project key of a working directory (SpecHooks).                     *)
(***************************************************************************)
\* The memories the capture hooks wrote in the directory cwd
CapturedIn(cwd) ==
    {id \in (Len(HookRows) + 1)..Len(memories) :
        memories[id].project = get_current_project(cwd)}

\* C33: the project key session_start queries in a working directory is the
\* key under which the capture hooks write in that directory, for a
\* directory under the tools root as for one under the apps root.
C33_SameProjectKey ==
    run.hook = "session_start" => run.project = get_current_project(run.cwd)

\* session_start in tools/cli, after a turn was captured there: it queried
\* 'cli', the memory is stored under 'tools/cli' and is not in its result
C33_Witness ==
    /\ run.hook = "session_start"
    /\ run.cwd = ToolDir
    /\ run.merged
    /\ run.project = CliProject
    /\ CapturedIn(ToolDir) # {}
    /\ CapturedIn(ToolDir) \cap Range(run.all_memories) = {}
    /\ \A id \in CapturedIn(ToolDir) : memories[id].project = OtherProject

\* session_start in apps/app queries the key of the captures there
C33_AppsWitness ==
    /\ run.hook = "session_start"
    /\ run.cwd = AppDir
    /\ run.project = get_current_project(AppDir)
    /\ CapturedIn(AppDir) # {}

-----------------------------------------------------------------------------
(***************************************************************************)
(* The order of the loop of session_end.main over new_commits (SpecCommit). *)
(***************************************************************************)
\* The most recent of the commits the last invocation wrote a Session for
\* (hashes are numbered in commit order)
NewestCaptured ==
    CHOOSE h \in run.sessionsFor : \A g \in run.sessionsFor : g <= h

\* The last invocation wrote the Sessions of several commits and nothing
\* was written since
SeveralCaptured ==
    /\ run.hook = "session_end"
    /\ Cardinality(run.sessionsFor) >= 2
    /\ sessions # <<>>
    /\ sessions[Len(sessions)].commit \in run.sessionsFor

\* C34: after an invocation that captured several novel commits, the Session
\* written last is that of the most recent of them and the current state of
\* the ActiveContext is its message.
C34_MostRecentCommitLast ==
    SeveralCaptured =>
        /\ sessions[Len(sessions)].commit = NewestCaptured
        /\ \E i \in 1..Len(sessions) :
              /\ sessions[i].commit = NewestCaptured
              /\ activeContext[Project].current_state = sessions[i].last_work

\* Two commits with different messages captured by one invocation: the
\* Session written last and the ActiveContext are those of the older one
C34_Witness ==
    /\ SeveralCaptured
    /\ Cardinality(run.sessionsFor) = 2
    /\ sessions[Len(sessions)].commit # NewestCaptured
    /\ sessions[Len(sessions) - 1].commit = NewestCaptured
    /\ sessions[Len(sessions)].last_work # sessions[Len(sessions) - 1].last_work
    /\ activeContext[Project].current_state = sessions[Len(sessions)].last_work
    /\ \A h \in run.sessionsFor : sessions[Len(sessions)].commit <= h

-----------------------------------------------------------------------------
(***************************************************************************)
(* The columns of active_context an upsert does not name (SpecFrame).      *)
(*                                                                         *)
(* The project's row holds a blocker and a last verification, the columns  *)
(* session_start and pre_prompt_submit read and no hook writes.            *)
(***************************************************************************)
BlockedRow ==
    [current_state |-> "fix nav", recent_files |-> <<"a.py">>,
     blockers |-> <<"waiting for api key">>,
     last_verification |-> <<"passed">>, updated_at |-> 0]

InitFrame ==
    /\ settings = NoSettings
    /\ dbExists = TRUE
    /\ memories = <<>>
    /\ sessions = <<>>
    /\ activeContext = [p \in Projects |->
                          IF p = Project THEN BlockedRow ELSE NoRow]
    /\ projectContext = [p \in Projects |-> NoRow]
    /\ embeddings = <<>>
    /\ ledger = [p \in Projects |-> <<>>]
    /\ gitLog = <<>>
    /\ nextCommit = 1
    /\ now = 0
    /\ invocations = 0
    /\ turn = [i \in Procs |-> NoTurn]
    /\ run = [hook |-> "none"]

NextFrame ==
    \/ \E msg \in CaptureMessages :
          /\ nextCommit <= MaxNewCommits
          /\ GitCommit(msg)
    \/ \E files \in {<<>>, <<"a.py">>} :
          /\ invocations < MaxRuns
          /\ SessionEndMain(files)
    \/ \E content \in HookTexts :
          /\ invocations < MaxRuns
          /\ PostPromptRun(Project, content)

SpecFrame == InitFrame /\ [][NextFrame]_vars

\* C35: an invocation of a capture hook leaves the blocker and the last
\* verification of the project's ActiveContext as they were.
C35_BlockersKept ==
    [][invocations' = invocations + 1 =>
         /\ activeContext'[Project].blockers = activeContext[Project].blockers
         /\ activeContext'[Project].last_verification =
               activeContext[Project].last_verification]_vars

\* The first invocation is a turn that was captured: the row has its state
\* and neither the blocker nor the last verification
C35_Witness ==
    /\ invocations = 1
    /\ run.hook = "post_prompt_submit"
    /\ run.inserted
    /\ activeContext[Project].updated_at = now
    /\ activeContext[Project].blockers = NULL
    /\ activeContext[Project].last_verification = NULL

\* The first invocation captured a commit: the same
C35_CommitWitness ==
    /\ invocations = 1
    /\ run.hook = "session_end"
    /\ run.sessionsFor # {}
    /\ run.upserts = 1
    /\ activeContext[Project].blockers = NULL
    /\ activeContext[Project].last_verification = NULL

\* The first invocation found uncommitted files and no commit: the same
C35_UncommittedWitness ==
    /\ invocations = 1
    /\ run.hook = "session_end"
    /\ run.sessionsFor = {}
    /\ run.upserts = 1
    /\ activeContext[Project].blockers = NULL

-----------------------------------------------------------------------------
(***************************************************************************)
(* Commit capture invoked again and again (SpecLive).                      *)
(*                                                                         *)
(* The store exists and every write succeeds; the repository starts empty  *)
(* or with a backlog of commits no invocation has seen, longer than the    *)
(* window of git log; a few more commits are made and then the log stays.  *)
(* session_end is invoked as long as an invocation changes anything.       *)
(***************************************************************************)
Backlog == LOG_WINDOW + 1

\* The messages of the backlog: every fourth commit is a trivial one
BacklogMessage(hash) ==
    IF hash % 4 = 0 THEN "wip"
    ELSE IF hash % 4 = 1 THEN "fix nav" ELSE "fix crash in login flow"

InitLive ==
    /\ settings = NoSettings
    /\ dbExists = TRUE
    /\ memories = <<>>
    /\ sessions = <<>>
    /\ activeContext = [p \in Projects |-> NoRow]
    /\ projectContext = [p \in Projects |-> NoRow]
    /\ embeddings = <<>>
    /\ turn = [i \in Procs |-> NoTurn]
    /\ ledger = [p \in Projects |-> <<>>]
    /\ \E h \in {0, Backlog} :
          /\ gitLog = [i \in 1..h |->
                         [hash |-> h - i + 1,
                          message |-> BacklogMessage(h - i + 1)]]
          /\ nextCommit = h + 1
    /\ now = 0
    /\ invocations = 0
    /\ run = [hook |-> "none"]

\* main up to the loop, in the one process that runs the hook; the
\* invocations are counted up to MaxRuns
LiveLoad ==
    /\ turn[1].pc = "idle"
    /\ LET new_commits == get_new_commits(gitLog, ledger)
       IN turn' = [turn EXCEPT ![1] =
                      [pc |-> "loop", n |-> 1,
                       observed |-> Hashes(new_commits),
                       new_commits |-> new_commits]]
    /\ invocations' = Min(invocations + 1, MaxRuns)
    /\ UNCHANGED <<storeVars, ledger, gitLog, nextCommit, now, run, settings>>

\* A step of the hook: the start of an invocation, a turn of its loop, its
\* end
SessionEndAgain == LiveLoad \/ EndLoop(1) \/ EndExit(1)

\* The commits made since the model started (MaxNewCommits < Backlog)
LiveCommits ==
    IF nextCommit > Backlog THEN nextCommit - 1 - Backlog ELSE nextCommit - 1

NextLive ==
    \/ \E msg \in CommitMessages :
          /\ LiveCommits < MaxNewCommits
          /\ GitCommit(msg)
    \/ LiveLoad
    \/ EndLoop(1)
    \/ EndExit(1)

SpecLive == InitLive /\ [][NextLive]_vars /\ WF_vars(SessionEndAgain)

\* Every commit of the window of git log is in the ledger, and has a Session
\* unless it is a trivial one
CaughtUp ==
    \A c \in Range(RecentLog(gitLog)) :
        /\ c.hash \in Range(ledger[Project])
        /\ ~should_skip_commit(c.message) =>
              \E i \in 1..Len(sessions) : sessions[i].commit = c.hash

\* C36: once the log stays, repeated invocations reach a state where every
\* commit of the window is in the ledger and every non-trivial one has a
\* Session, and stay there; an invocation in such a state writes no Session,
\* no Memory and no ledger entry.
C36_CatchesUp ==
    /\ <>[]CaughtUp
    /\ [][CaughtUp /\ gitLog' = gitLog =>
            UNCHANGED <<sessions, memories, ledger>>]_vars

\* Caught up after a backlog of more commits than one invocation takes:
\* the ten of the window are in the ledger, the non-trivial ones have a
\* Session, the commit the window leaves out has neither, and the
\* invocation that followed found nothing to capture
C36_Witness ==
    /\ CaughtUp
    /\ Len(gitLog) = Backlog
    /\ turn[1].pc = "loop"
    /\ turn[1].observed = <<>>
    /\ Len(ledger[Project]) = LOG_WINDOW
    /\ Len(sessions) > NEW_COMMITS_CAP
    /\ Len(sessions) =
          Cardinality({c \in Range(RecentLog(gitLog)) :
                          ~should_skip_commit(c.message)})
    /\ Len(sessions) < LOG_WINDOW
    /\ 1 \notin Range(ledger[Project])

-----------------------------------------------------------------------------
(***************************************************************************)
(* What session_start lists of the merged memories (SpecShow).             *)
(*                                                                         *)
(* A store of one project whose phases return different memories: two      *)
(* that match the git log, three like them by their embeddings, three      *)
(* recent ones, two important ones.                                        *)
(***************************************************************************)
MaxShowRows == 10       \* rows of memories

ShowRows == <<
    Seed(Project, "use riverpod", "observation", 5, LongAgo),
    Seed(Project, "use riverpod", "observation", 4, LongAgo),
    Seed(Project, "login", "observation", 1, LongAgo),
    Seed(Project, "login", "observation", 1, LongAgo),
    Seed(Project, "login", "observation", 1, LongAgo),
    Seed(Project, "login", "observation", 3, Lately),
    Seed(Project, "login", "observation", 3, Lately),
    Seed(Project, "login", "observation", 3, Lately),
    Seed(Project, "fix nav", "decision", 9, LongAgo),
    Seed(Project, "fix nav", "decision", 9, LongAgo) >>

\* The memories that have an embedding
ShowEmbedded == 1..5

\* git log: nothing, or one commit
ShowLogs == {<<>>, <<[hash |-> 1, message |-> "use riverpod"]>>}

InitShow ==
    /\ settings = NoSettings
    /\ dbExists = TRUE
    /\ \E n \in 0..Min(MaxShowRows, Len(ShowRows)) :
          /\ memories = Take(ShowRows, n)
          /\ embeddings = [id \in ShowEmbedded \cap 1..n |->
                              [bytes |-> 4 * EMBEDDING_DIM, dir |-> 1]]
    /\ projectContext \in
          {[p \in Projects |-> NoRow],
           [p \in Projects |->
               IF p = Project THEN [tech_stack |-> "object"] ELSE NoRow]}
    /\ activeContext = [p \in Projects |-> NoRow]
    /\ sessions = <<>>
    /\ gitLog \in ShowLogs
    /\ ledger = [p \in Projects |-> <<>>]
    /\ nextCommit = Len(gitLog) + 1
    /\ now = Today
    /\ invocations = 0
    /\ turn = [i \in Procs |-> NoTurn]
    /\ run = [hook |-> "none"]

NextShow ==
    \/ \E cwd \in Dirs : SessionStartAt(cwd)
    \/ \E user_query \in RankQueries : PrePromptMain(AppDir, user_query)

SpecShow == InitShow /\ [][NextShow]_vars

\* format_output: the n of the header 'Relevant Memories (n)', and the
\* lines format_memory made under it
HeaderCount == Len(run.all_memories)
ListedLines == Len(run.shown)

\* session_start printed the section of the memories
PrintedMemories ==
    /\ run.hook = "session_start"
    /\ run.printed = "session-context"
    /\ run.all_memories # <<>>

\* C37: every memory of the merged result is rendered: the count of the
\* header 'Relevant Memories (n)' is the number of memory lines under it.
C37_HeaderCountsLines == PrintedMemories => HeaderCount = ListedLines

\* Ten memories merged from the five phases: the header says 10, eight
\* lines follow
C37_Witness ==
    /\ PrintedMemories
    /\ HeaderCount = 10
    /\ ListedLines = SHOWN_CAP
    /\ Cardinality(Range(run.all_memories)) = 10
    /\ \A i \in 1..Len(run.phases) : run.phases[i] # <<>>

\* Up to eight memories merged: every one is listed
C37_AllListedWitness ==
    /\ PrintedMemories
    /\ HeaderCount = SHOWN_CAP
    /\ ListedLines = SHOWN_CAP

-----------------------------------------------------------------------------
(***************************************************************************)
(* install_hooks.py on the settings file (SpecInstall).                    *)
(*                                                                         *)
(* An entry of the list hooks['user-prompt-submit'] is a dict with a       *)
(* 'command' or a plain string; the script is run from the directory it    *)
(* stands in, which may be another one after the repository was moved.     *)
(***************************************************************************)
MaxInstalls == 3            \* runs of install_hooks.py
MaxSettingsEntries == 2     \* entries of a list of hooks before the first run

\* SCRIPT_DIR of the runs
ScriptDirs == {"/repo", "/old"}

\* f"python3 {SCRIPT_DIR / 'pre_prompt_submit.py'}"
pre_hook_cmd(dir) ==
    IF dir = "/repo" THEN "python3 /repo/pre_prompt_submit.py"
    ELSE "python3 /old/pre_prompt_submit.py"

Commands == {pre_hook_cmd(dir) : dir \in ScriptDirs}
              \cup {"python3 /repo/post_prompt_submit.py", "lint.sh"}

\* 'pre_prompt_submit.py' in text
MentionsPreHook(command) == command \in {pre_hook_cmd(dir) : dir \in ScriptDirs}

\* The entries: {"command": c} and the plain string c
SettingsEntries == [form : {"dict", "str"}, command : Commands]

\* str(h) of an entry holds the text of its command
MentionedIn(h) == MentionsPreHook(h.command)

\* The entries of a list that are for pre_prompt_submit.py
PreHookEntries(list) == {i \in 1..Len(list) : MentionedIn(list[i])}

\* load_settings: {} for no file and for a file json.load raises on
load_settings(file) ==
    IF file.file = "object" THEN file
    ELSE [file |-> "object", hooks |-> FALSE, key |-> FALSE,
          prompt |-> <<>>, stop |-> <<>>, theme |-> "none"]

\* install_hooks whose duplicate check is only
\* pre_hook_cmd not in existing_cmds
install_hooks_exact(file, dir) ==
    LET loaded == load_settings(file)
        existing_cmds == [i \in 1..Len(loaded.prompt) |-> loaded.prompt[i].command]
    IN [loaded EXCEPT
          !.hooks = TRUE, !.key = TRUE,
          !.prompt = IF pre_hook_cmd(dir) \notin Range(existing_cmds)
                     THEN Append(@, [form |-> "dict", command |-> pre_hook_cmd(dir)])
                     ELSE @]

\* install_hooks: the file save_settings writes
install_hooks(file, dir) ==
    LET loaded == load_settings(file)
        existing_cmds == [i \in 1..Len(loaded.prompt) |-> loaded.prompt[i].command]
    IN [loaded EXCEPT
          !.hooks = TRUE, !.key = TRUE,
          !.prompt = IF /\ pre_hook_cmd(dir) \notin Range(existing_cmds)
                        /\ \A i \in 1..Len(existing_cmds) :
                              ~MentionsPreHook(existing_cmds[i])
                     THEN Append(@, [form |-> "dict", command |-> pre_hook_cmd(dir)])
                     ELSE @]

\* remove_hooks: the file as the run leaves it; without 'hooks' it returns
\* before save_settings
remove_hooks(file) ==
    LET loaded == load_settings(file)
    IN IF ~loaded.hooks THEN file
       ELSE IF loaded.key
            THEN [loaded EXCEPT
                    !.prompt = SelectSeq(@, LAMBDA h : ~MentionedIn(h))]
            ELSE loaded

InstallHooks(dir) ==
    /\ settings' = install_hooks(settings, dir)
    /\ run' = [hook |-> "install_hooks", dir |-> dir]
    /\ invocations' = invocations + 1
    /\ UNCHANGED <<storeVars, ledger, gitLog, nextCommit, now, turn>>

RemoveHooks ==
    /\ settings' = remove_hooks(settings)
    /\ run' = [hook |-> "remove_hooks"]
    /\ invocations' = invocations + 1
    /\ UNCHANGED <<storeVars, ledger, gitLog, nextCommit, now, turn>>

\* The lists of hooks before the first run, with at most one entry for
\* pre_prompt_submit.py
SettingsLists ==
    {list \in UNION {[1..n -> SettingsEntries] : n \in 0..MaxSettingsEntries} :
        Cardinality(PreHookEntries(list)) <= 1}

\* The settings file before the first run
SettingsFiles ==
    {NoSettings, [NoSettings EXCEPT !.file = "corrupt"]}
    \cup {[file |-> "object", hooks |-> hooks, key |-> key, prompt |-> prompt,
           stop |-> stop, theme |-> "dark"] :
             hooks \in BOOLEAN, key \in BOOLEAN, prompt \in SettingsLists,
             stop \in {<<>>, <<[form |-> "dict", command |-> "lint.sh"]>>}}

InitInstall ==
    /\ settings \in {file \in SettingsFiles :
                        /\ file.key => file.hooks
                        /\ ~file.key => file.prompt = <<>>
                        /\ ~file.hooks => file.stop = <<>>}
    /\ dbExists = TRUE
    /\ memories = <<>>
    /\ sessions = <<>>
    /\ activeContext = [p \in Projects |-> NoRow]
    /\ projectContext = [p \in Projects |-> NoRow]
    /\ embeddings = <<>>
    /\ ledger = [p \in Projects |-> <<>>]
    /\ gitLog = <<>>
    /\ nextCommit = 1
    /\ now = 0
    /\ invocations = 0
    /\ turn = [i \in Procs |-> NoTurn]
    /\ run = [hook |-> "none"]

NextInstall ==
    \/ \E dir \in ScriptDirs :
          /\ invocations < MaxInstalls
          /\ InstallHooks(dir)
    \/ /\ invocations < MaxInstalls
       /\ RemoveHooks

SpecInstall == InitInstall /\ [][NextInstall]_vars

\* The entries of a list that are not for pre_prompt_submit.py
OtherEntries(list) == SelectSeq(list, LAMBDA h : ~MentionedIn(h))

\* C38: after a run of install_hooks, whatever ran before it, the settings
\* hold exactly one user-prompt-submit entry for pre_prompt_submit.py; a run
\* of remove_hooks leaves no such entry and every other hook entry as it
\* was.
C38_InstallOnceRemoveAll ==
    [][invocations' = invocations + 1 =>
         /\ run'.hook = "install_hooks" =>
               /\ Cardinality(PreHookEntries(settings'.prompt)) = 1
               /\ OtherEntries(settings'.prompt) = OtherEntries(settings.prompt)
         /\ run'.hook = "remove_hooks" =>
               /\ PreHookEntries(settings'.prompt) = {}
               /\ settings'.prompt = OtherEntries(settings.prompt)
               /\ settings'.stop = settings.stop
               /\ settings'.theme = settings.theme]_vars

\* install_hooks ran from both directories on a file with another entry:
\* the one entry is that of the first run and the other entry is kept
C38_Witness ==
    /\ invocations = 2
    /\ run.hook = "install_hooks"
    /\ run.dir = "/old"
    /\ Len(settings.prompt) = 2
    /\ settings.prompt[1].command = "lint.sh"
    /\ settings.prompt[2] = [form |-> "dict", command |-> pre_hook_cmd("/repo")]
    /\ settings.stop # <<>>

\* remove_hooks after two installs: the entry is gone, the others are there
C38_RemovedWitness ==
    /\ invocations = 3
    /\ run.hook = "remove_hooks"
    /\ settings.hooks /\ settings.key
    /\ Len(settings.prompt) = 2
    /\ PreHookEntries(settings.prompt) = {}
    /\ settings.stop # <<>>

=============================================================================
